---- MODULE Spec2Model ----
(***************************************************************************)
(* Suparank MCP client: session state service, session lock, orchestrator  *)
(* tool handlers and batch publishing, as a state machine.                 *)
(*                                                                         *)
(* The repository holds two copies of the server: the modular one under    *)
(* mcp-client/ (services/session-state.js, handlers/orchestrator.js) and   *)
(* the legacy single file mcp-client.js.  The launcher runs whichever it   *)
(* finds first, so both are modelled; the variable impl says which copy    *)
(* the running process executes.                                           *)
(***************************************************************************)
EXTENDS Integers, Sequences, FiniteSets, TLC

\* ------------------------------------------------------------------ bounds
NumCallers   == 3   \* concurrent callers of saveSessionSafe
MaxLockCalls == 4   \* saveSessionSafe calls in one behaviour
MaxCalls     == 3   \* tool calls in one behaviour
MaxFaults    == 1   \* saves that fail or crash in one behaviour
MaxMs        == 1   \* milliseconds between a file's time stamp and the first start
MaxDays      == 1   \* expiry periods (24 h) the clock advances
MaxExits     == 1   \* process exits (each followed by a restart) in one behaviour
MaxBatches   == 1   \* publish_content calls in flight at once
MaxRand      == 1   \* distinct random suffixes of generateArticleId

\* ------------------------------------------------------- program constants
SESSION_EXPIRY_MS == 24 * 60 * 60 * 1000

VARIABLES
  impl,              \* "modular" (mcp-client/*) or "legacy" (mcp-client.js)
  proc,              \* "down" before main() has run / after the process ended, else "up"
  now,               \* Date.now(), in milliseconds
  sessionState,      \* the sessionState object
  sessionFile,       \* ~/.suparank/session.json: <<>> (absent) or <<contents>>
  tmpFile,           \* session.json.tmp.<pid>: <<>> (absent) or <<contents>>
  persisted,         \* history: <<>> or <<the sessionState the session file was written from>>
  calls,             \* tool calls made so far
  exits,             \* process exits so far
  faults,            \* failed or crashed saves so far
  creds,             \* platforms with a credential in credentials.json
  batches,           \* publish_content calls suspended at a publisher call
  dispatches,        \* history: every publisher call made, in order
  race,              \* the two tool calls of a two-call schedule (p, q), else NoRace
  sessionLock,       \* let sessionLock = false
  sessionLockQueue,  \* const sessionLockQueue = [] (resolve callbacks, by caller)
  callerPc,          \* position of every saveSessionSafe caller
  lockCalls,         \* number of saveSessionSafe calls made so far
  acquireOrder,      \* history: callers in the order they called acquireSessionLock
  grantOrder         \* history: callers in the order their acquire resolved

lockVars == <<sessionLock, sessionLockQueue, callerPc, lockCalls, acquireOrder, grantOrder>>

sessVars == <<impl, proc, now, sessionState, sessionFile, tmpFile, persisted, calls, exits,
              faults, creds, batches, dispatches, race>>

vars == <<sessVars, lockVars>>

Callers == 1..NumCallers

\* ------------------------------------------------------------ session lock

\* Variant: the free branch forgets sessionLock = true.
acquireSessionLock_NoSet(lock, queue, c) ==
  IF ~lock
    THEN [sessionLock |-> lock, sessionLockQueue |-> queue, granted |-> TRUE]
    ELSE [sessionLock |-> lock, sessionLockQueue |-> Append(queue, c), granted |-> FALSE]

\* acquireSessionLock, synchronous part.  granted: the returned promise is
\* already resolved; otherwise the caller's resolve callback is queued.
acquireSessionLock(lock, queue, c) ==
  IF ~lock
    THEN [sessionLock |-> TRUE, sessionLockQueue |-> queue, granted |-> TRUE]
    ELSE [sessionLock |-> lock, sessionLockQueue |-> Append(queue, c), granted |-> FALSE]

\* Variant: the lock is freed without calling the next waiter.
releaseSessionLock_NoWake(lock, queue) ==
  [sessionLock |-> FALSE, sessionLockQueue |-> queue, next |-> <<>>]

\* Variant: pop() in place of shift().
releaseSessionLock_Pop(lock, queue) ==
  IF Len(queue) > 0
    THEN [sessionLock |-> lock, sessionLockQueue |-> SubSeq(queue, 1, Len(queue) - 1),
          next |-> <<queue[Len(queue)]>>]
    ELSE [sessionLock |-> FALSE, sessionLockQueue |-> queue, next |-> <<>>]

\* releaseSessionLock.  next: the callers whose resolve callback was invoked.
releaseSessionLock(lock, queue) ==
  IF Len(queue) > 0
    THEN [sessionLock |-> lock, sessionLockQueue |-> Tail(queue), next |-> <<Head(queue)>>]
    ELSE [sessionLock |-> FALSE, sessionLockQueue |-> queue, next |-> <<>>]

\* --------------------------------------------------------------- JS values
Null      == "<null>"        \* null, for a string-valued field
Undefined == "<undefined>"   \* undefined / a key missing from parsed JSON
None      == <<>>            \* null or undefined, for an object- or array-valued field
Some(x)   == <<x>>

Falsy(s)     == s \in {Null, Undefined, ""}           \* !s, for a string-valued field
OrElse(s, d) == IF Falsy(s) THEN d ELSE s            \* s || d
OrNone(o)    == o                                     \* o || null: objects and arrays are truthy
OrEmpty(o)   == IF o = None THEN <<>> ELSE o[1]      \* o || []
\* Text (article content) is None (null) or Some(sequence of characters).
FalsyText(o) == o = None \/ o[1] = <<>>              \* !o

\* An array: a sequence held as a tuple of its elements, whatever expression
\* built it.
AsArray(f) == SubSeq(f, 1, Len(f))

SeqMap(Op(_), s) == AsArray([i \in 1..Len(s) |-> Op(s[i])])

\* ------------------------------------------------------------ session state

\* export const sessionState = {...}.  stepResults is {} in every state (no
\* code assigns it anything else) and is left out.
EmptySession ==
  [ currentWorkflow |-> None,
    articles        |-> <<>>,
    article         |-> None,
    title           |-> Null,
    imageUrl        |-> Null,
    inlineImages    |-> <<>>,
    keywords        |-> None,
    metadata        |-> None,
    metaTitle       |-> Null,
    metaDescription |-> Null,
    contentFolder   |-> None ]

\* generateArticleId: `article-${Date.now()}-${random}`
generateArticleId(t, r) == <<t, r>>

\* Variant: >= in place of >.
isSessionExpired_AtLeast(savedAt, t) ==
  IF savedAt = None THEN TRUE
  ELSE (t - savedAt[1]) >= SESSION_EXPIRY_MS

\* isSessionExpired(savedAt) of session-state.js; savedAt is None when the
\* key is missing or the string is empty.
isSessionExpired(savedAt, t) ==
  IF savedAt = None THEN TRUE
  ELSE (t - savedAt[1]) > SESSION_EXPIRY_MS

\* JSON.stringify followed by JSON.parse of one article: the values survive,
\* the identity of its inlineImages array (shared: it is the very array object
\* that sessionState.inlineImages refers to) does not.
ArticleToJSON(a) == [a EXCEPT !.shared = FALSE]

\* The object saveSession builds (toSave) as it reads back from the file.
\* torn marks a file whose text is an incomplete JSON document.
ToJSON(ss, t) ==
  [ torn            |-> FALSE,
    savedAt         |-> Some(t),
    currentWorkflow |-> ss.currentWorkflow,
    articlesPresent |-> TRUE,
    articles        |-> SeqMap(ArticleToJSON, ss.articles),
    article         |-> ss.article,
    title           |-> ss.title,
    imageUrl        |-> ss.imageUrl,
    inlineImages    |-> ss.inlineImages,
    keywords        |-> ss.keywords,
    metadata        |-> ss.metadata,
    metaTitle       |-> ss.metaTitle,
    metaDescription |-> ss.metaDescription,
    contentFolder   |-> ss.contentFolder ]

TornFile == [ToJSON(EmptySession, 0) EXCEPT !.torn = TRUE, !.savedAt = None]

\* What the file system does to one atomicWriteSync / saveSession call.
\*   ok            both calls succeed
\*   write_error   writeFileSync throws, nothing written (EACCES, no directory)
\*   write_partial writeFileSync throws after writing part of the data (ENOSPC)
\*   rename_error  renameSync throws
\*   crash_write   the process dies inside writeFileSync
\*   crash_rename  the process dies between writeFileSync and renameSync
\* unlinkSync of an existing file is taken to succeed.
SaveErrors    == {"write_error", "write_partial", "rename_error"}
SaveCrashes   == {"crash_write", "crash_rename"}
SaveOutcomes  == {"ok"} \cup SaveErrors \cup SaveCrashes

\* Variant: writeFileSync(filePath, data), no temporary file.
atomicWriteSync_InPlace(file, tmp, data, outcome) ==
  CASE outcome = "ok" ->
         [file |-> Some(data), tmp |-> tmp, threw |-> FALSE, crashed |-> FALSE]
    [] outcome = "crash_write" ->
         [file |-> Some(TornFile), tmp |-> tmp, threw |-> FALSE, crashed |-> TRUE]
    [] outcome = "crash_rename" ->
         [file |-> Some(data), tmp |-> tmp, threw |-> FALSE, crashed |-> TRUE]
    [] outcome = "write_partial" ->
         [file |-> Some(TornFile), tmp |-> tmp, threw |-> TRUE, crashed |-> FALSE]
    [] OTHER ->
         [file |-> file, tmp |-> tmp, threw |-> TRUE, crashed |-> FALSE]

\* atomicWriteSync(filePath, data) on the session file.
atomicWriteSync(file, tmp, data, outcome) ==
  LET written == CASE outcome = "write_error" -> tmp
                   [] outcome \in {"write_partial", "crash_write"} -> Some(TornFile)
                   [] OTHER -> Some(data)
  IN  CASE outcome = "ok" ->
             [file |-> written, tmp |-> None, threw |-> FALSE, crashed |-> FALSE]
        [] outcome \in SaveCrashes ->
             [file |-> file, tmp |-> written, threw |-> FALSE, crashed |-> TRUE]
        [] OTHER ->  \* catch: unlinkSync(tmpFile), rethrow
             [file |-> file, tmp |-> None, threw |-> TRUE, crashed |-> FALSE]

\* saveSession(): try { atomicWriteSync(sessionFile, JSON.stringify(toSave)) }
\* catch { log }.
saveSession(ss, file, tmp, t, outcome) ==
  LET w == atomicWriteSync(file, tmp, ToJSON(ss, t), outcome)
  IN  [file |-> w.file, tmp |-> w.tmp, threw |-> FALSE, crashed |-> w.crashed,
       saved |-> ~w.threw /\ ~w.crashed, failed |-> w.threw, snap |-> ss]

\* clearSessionFile(): if (existsSync) unlinkSync.
clearSessionFile(file) == None

\* resetSession().  The legacy copy ends with clearSessionFile(); the modular
\* copy does not call it.
resetSession(im, file) ==
  [state |-> EmptySession,
   file  |-> IF im = "legacy" THEN clearSessionFile(file) ELSE file]

\* Variant: contentFolder is not restored.
RestoreFields_NoFolder(cur, saved, arts) ==
  [ currentWorkflow |-> OrNone(saved.currentWorkflow),
    articles        |-> arts,
    article         |-> IF FalsyText(saved.article) THEN None ELSE saved.article,
    title           |-> OrElse(saved.title, Null),
    imageUrl        |-> OrElse(saved.imageUrl, Null),
    inlineImages    |-> saved.inlineImages,
    keywords        |-> OrNone(saved.keywords),
    metadata        |-> OrNone(saved.metadata),
    metaTitle       |-> OrElse(saved.metaTitle, Null),
    metaDescription |-> OrElse(saved.metaDescription, Null),
    contentFolder   |-> cur.contentFolder ]

\* The assignments both loaders make to the working (draft) fields.
RestoreFields(cur, saved, arts) ==
  [ currentWorkflow |-> OrNone(saved.currentWorkflow),
    articles        |-> arts,
    article         |-> IF FalsyText(saved.article) THEN None ELSE saved.article,
    title           |-> OrElse(saved.title, Null),
    imageUrl        |-> OrElse(saved.imageUrl, Null),
    inlineImages    |-> saved.inlineImages,
    keywords        |-> OrNone(saved.keywords),
    metadata        |-> OrNone(saved.metadata),
    metaTitle       |-> OrElse(saved.metaTitle, Null),
    metaDescription |-> OrElse(saved.metaDescription, Null),
    contentFolder   |-> OrNone(saved.contentFolder) ]

\* restoreSession() of services/session-state.js, on in-memory state cur.
restoreSession(cur, file, t) ==
  IF file = None THEN [restored |-> FALSE, state |-> cur, file |-> file]
  ELSE LET saved == file[1] IN
    IF saved.torn   \* JSON.parse throws, caught
      THEN [restored |-> FALSE, state |-> cur, file |-> file]
    ELSE IF isSessionExpired(saved.savedAt, t)
      THEN [restored |-> FALSE, state |-> cur, file |-> file]
    ELSE [restored |-> TRUE,
          state    |-> RestoreFields(cur, saved,
                         IF saved.articlesPresent THEN saved.articles ELSE <<>>),
          file     |-> file]

\* The article loadSession() builds from a file in the old single-article
\* format.  Its inlineImages is the array sessionState.inlineImages gets too.
MigratedArticle(saved, t, r) ==
  [ id              |-> generateArticleId(t, r),
    title           |-> saved.title,
    content         |-> saved.article[1],
    keywords        |-> OrEmpty(saved.keywords),
    metaDescription |-> OrElse(saved.metaDescription, ""),
    metaTitle       |-> OrElse(saved.metaTitle, saved.title),
    imageUrl        |-> OrElse(saved.imageUrl, Null),
    inlineImages    |-> saved.inlineImages,
    savedAt         |-> saved.savedAt,
    published       |-> FALSE,
    publishedTo     |-> <<>>,
    publishedAt     |-> None,
    wordCount       |-> None,
    loadedFrom      |-> None,
    shared          |-> TRUE ]

\* loadSession() of mcp-client.js.  new Date(undefined).getTime() is NaN and
\* NaN > 24 is false, so a file without savedAt is not taken as expired.
loadSession(cur, file, t, r) ==
  IF file = None THEN [restored |-> FALSE, state |-> cur, file |-> file]
  ELSE LET saved == file[1] IN
    IF saved.torn
      THEN [restored |-> FALSE, state |-> cur, file |-> file]
    ELSE IF saved.savedAt # None /\ (t - saved.savedAt[1]) > SESSION_EXPIRY_MS
      THEN [restored |-> FALSE, state |-> cur, file |-> clearSessionFile(file)]
    ELSE [restored |-> TRUE,
          state    |-> RestoreFields(cur, saved,
                         IF saved.articlesPresent THEN saved.articles
                         ELSE IF ~FalsyText(saved.article) /\ ~Falsy(saved.title)
                           THEN <<MigratedArticle(saved, t, r)>>
                           ELSE <<>>),
          file     |-> file]

\* --------------------------------------------------------------- tool inputs

\* Text is a sequence of characters: "w" any non-whitespace character, " " any
\* whitespace character.
IsSpace(ch) == ch = " "

\* content.split(/\s+/).length: one more than the number of maximal runs of
\* whitespace.
WordCount(content) ==
  1 + Cardinality({i \in 1..Len(content) :
        IsSpace(content[i]) /\ (i = 1 \/ ~IsSpace(content[i - 1]))})

\* save_content arguments (keywords and meta_description at their defaults in
\* the second).
SaveArgs ==
  { [title |-> "t1", content |-> <<"w", " ", "w">>, keywords |-> <<"k1">>,
     meta_description |-> "m1"],
    [title |-> "T 2", content |-> <<"w">>, keywords |-> <<>>,
     meta_description |-> ""] }

Urls == {"u1", "u2"}            \* image URLs a provider returns
Counts == {1, 2}                \* create_content count

DAY_MS == 24 * 60 * 60 * 1000
\* new Date().toISOString().split('T')[0]
DateOf(t) == ToString(t \div DAY_MS)
\* slugify(): lower case, every run of other characters than a-z, 0-9 to
\* "-", no "-" at either end; on the titles of SaveArgs.
slugify(title) == IF title = "T 2" THEN "t-2" ELSE title
FolderPath(t, title) == DateOf(t) \o "-" \o slugify(title)

\* ----------------------------------------------------------------- handlers
\* A handler maps the state it reads to the state it leaves:
\*   state, file, tmp   session object, session file, temp file
\*   saved, snap        the session file was rewritten, from session object snap
\*   failed             a save was tried and its error caught
\*   crashed            the process died inside the handler
\*   threw              the handler ended with an exception

Outcome(state, sv, threw) ==
  [state |-> state, file |-> sv.file, tmp |-> sv.tmp, saved |-> sv.saved,
   failed |-> sv.failed, snap |-> sv.snap, crashed |-> sv.crashed, threw |-> threw]

NoSave(state, file, tmp, threw) ==
  [state |-> state, file |-> file, tmp |-> tmp, saved |-> FALSE,
   failed |-> FALSE, snap |-> state, crashed |-> FALSE, threw |-> threw]

\* sessionState.inlineImages = <a new array>: no article shares the draft's
\* array any more.
Unshare(articles) ==
  AsArray([i \in 1..Len(articles) |-> [articles[i] EXCEPT !.shared = FALSE]])

\* saveContentToFolder(): writes the folder and sets sessionState.contentFolder;
\* returns null early without title or article.  The writes to the content
\* folder are taken to succeed.
saveContentToFolder(ss, t) ==
  IF Falsy(ss.title) \/ FalsyText(ss.article) THEN ss
  ELSE [ss EXCEPT !.contentFolder = Some(FolderPath(t, ss.title))]

\* Variant: the inline images are left in place.
ClearWorkingImages_CoverOnly(ss) == [ss EXCEPT !.imageUrl = Null]

\* "Clear current working images for next article": imageUrl = null and
\* inlineImages = [], a new array.
ClearWorkingImages(ss) ==
  [ss EXCEPT !.imageUrl = Null, !.inlineImages = <<>>, !.articles = Unshare(@)]

\* handleSaveContent / case 'save_content'
handleSaveContent(ss, file, tmp, t, r, args, outcome) ==
  LET newArticle ==
        [ id              |-> generateArticleId(t, r),
          title           |-> args.title,
          content         |-> args.content,
          keywords        |-> args.keywords,
          metaDescription |-> args.meta_description,
          metaTitle       |-> args.title,
          imageUrl        |-> OrElse(ss.imageUrl, Null),
          inlineImages    |-> ss.inlineImages,      \* [...sessionState.inlineImages]
          savedAt         |-> Some(t),
          published       |-> FALSE,
          publishedTo     |-> <<>>,
          publishedAt     |-> None,
          wordCount       |-> Some(WordCount(args.content)),
          loadedFrom      |-> None,
          shared          |-> FALSE ]
      s1 == [ss EXCEPT !.articles = Append(@, newArticle),
                       !.title = args.title,
                       !.article = Some(args.content),
                       !.keywords = Some(args.keywords),
                       !.metaDescription = args.meta_description,
                       !.metadata = Some(args.meta_description)]
      sv == saveSession(s1, file, tmp, t, outcome)
      s2 == saveContentToFolder(s1, t)
      s3 == ClearWorkingImages(s2)
  IN  IF sv.crashed \/ sv.threw THEN Outcome(s1, sv, sv.threw)
      ELSE Outcome(s3, sv, FALSE)

\* The plan buildWorkflowPlan returns, as far as the session is concerned.
WorkflowPlan(t, count) == [workflow_id |-> t, total_articles |-> count]

\* handleCreateContent / case 'create_content'.  configOk: validateProjectConfig
\* accepts the project's configuration; otherwise buildWorkflowPlan throws.
handleCreateContent(im, ss, file, tmp, t, count, configOk, outcome) ==
  LET rs == resetSession(im, file)
      s1 == [rs.state EXCEPT !.currentWorkflow = Some(WorkflowPlan(t, count))]
      sv == saveSession(s1, rs.file, tmp, t, outcome)
  IN  IF ~configOk THEN NoSave(rs.state, rs.file, tmp, TRUE)
      ELSE Outcome(s1, sv, sv.threw)

\* storeImageInSession(imageUrl) / the store at the end of generate_image.
\* push() changes the array in place, for every article that shares it.
storeImageInSession(ss, file, tmp, t, url, outcome) ==
  LET s1 == IF Falsy(ss.imageUrl)
              THEN [ss EXCEPT !.imageUrl = url]
              ELSE [ss EXCEPT !.inlineImages = Append(@, url),
                              !.articles = AsArray([i \in 1..Len(@) |->
                                 IF @[i].shared
                                   THEN [@[i] EXCEPT !.inlineImages = Append(@, url)]
                                   ELSE @[i]])]
      sv == saveSession(s1, file, tmp, t, outcome)
  IN  Outcome(s1, sv, sv.threw)

\* [...article_numbers].sort((a, b) => b - a)
RECURSIVE SortDesc(_)
SortDesc(nums) ==
  IF nums = <<>> THEN <<>>
  ELSE LET m == CHOOSE i \in 1..Len(nums) :
                  /\ \A j \in 1..Len(nums) : nums[j] <= nums[i]
                  /\ \A j \in 1..(i - 1) : nums[j] < nums[i]
       IN  <<nums[m]>> \o SortDesc(SubSeq(nums, 1, m - 1) \o SubSeq(nums, m + 1, Len(nums)))

RemoveAt(seq, i) == SubSeq(seq, 1, i - 1) \o SubSeq(seq, i + 1, Len(seq))

\* Variant: the published flag is not looked at.
RECURSIVE RemoveLoop_AnyArticle(_, _, _, _)
RemoveLoop_AnyArticle(articles, nums, removed, skipped) ==
  IF nums = <<>> THEN [articles |-> articles, removed |-> removed, skipped |-> skipped]
  ELSE LET num == Head(nums) IN
    IF num - 1 < 0 \/ num - 1 >= Len(articles)
      THEN RemoveLoop_AnyArticle(articles, Tail(nums), removed,
                      Append(skipped, [num |-> num, reason |-> "not found"]))
    ELSE RemoveLoop_AnyArticle(RemoveAt(articles, num), Tail(nums),
                    Append(removed, [num |-> num, title |-> articles[num].title]), skipped)

\* The for loop of handleRemoveArticle over the sorted numbers.
RECURSIVE RemoveLoop(_, _, _, _)
RemoveLoop(articles, nums, removed, skipped) ==
  IF nums = <<>> THEN [articles |-> articles, removed |-> removed, skipped |-> skipped]
  ELSE LET num == Head(nums) IN
    IF num - 1 < 0 \/ num - 1 >= Len(articles)
      THEN RemoveLoop(articles, Tail(nums), removed,
                      Append(skipped, [num |-> num, reason |-> "not found"]))
    ELSE IF articles[num].published
      THEN RemoveLoop(articles, Tail(nums), removed,
                      Append(skipped, [num |-> num, reason |-> "already published"]))
    ELSE RemoveLoop(RemoveAt(articles, num), Tail(nums),
                    Append(removed, [num |-> num, title |-> articles[num].title]), skipped)

\* handleRemoveArticle / case 'remove_article'
handleRemoveArticle(ss, file, tmp, t, nums, outcome) ==
  LET res == RemoveLoop(ss.articles, SortDesc(nums), <<>>, <<>>)
      s1  == [ss EXCEPT !.articles = res.articles]
      sv  == saveSession(s1, file, tmp, t, outcome)
  IN  IF nums = <<>> THEN NoSave(ss, file, tmp, FALSE)
      ELSE Outcome(s1, sv, sv.threw)

\* Variant: the session is cleared whatever confirm is.
handleClearSession_NoConfirm(im, ss, file, tmp, confirm) ==
  LET rs == resetSession(im, file)
  IN  NoSave(rs.state, rs.file, tmp, FALSE)

\* handleClearSession / case 'clear_session'
handleClearSession(im, ss, file, tmp, confirm) ==
  IF ~confirm THEN NoSave(ss, file, tmp, FALSE)
  ELSE LET rs == resetSession(im, file)
       IN  NoSave(rs.state, rs.file, tmp, FALSE)

\* Folders of ~/.suparank/content that load_content is asked for: one as
\* saveContentToFolder writes it, one without metadata.json, one that does
\* not exist.
NoMetadata ==
  [ title |-> Undefined, keywords |-> None, metaDescription |-> Undefined,
    metaTitle |-> Undefined, imageUrl |-> Undefined, inlineImages |-> None,
    createdAt |-> None ]

Folders ==
  { [name |-> "0-t1", exists |-> TRUE, content |-> <<"w", " ", "[IMAGE:", "w", "]">>,
     metadata |-> [ title |-> "t1", keywords |-> Some(<<"k1">>),
                    metaDescription |-> "m1", metaTitle |-> "t1",
                    imageUrl |-> "u1", inlineImages |-> Some(<<"u2">>),
                    createdAt |-> Some(0) ]],
    [name |-> "0-t-2", exists |-> TRUE, content |-> <<"w">>, metadata |-> NoMetadata],
    [name |-> "none", exists |-> FALSE, content |-> <<>>, metadata |-> NoMetadata] }

\* handleLoadContent / case 'load_content', for a folder_name that passes the
\* path check.  The article pushed refers to the very arrays the draft fields
\* were just set to.
handleLoadContent(ss, file, tmp, t, r, folder, outcome) ==
  LET md    == folder.metadata
      title == OrElse(md.title, folder.name)
      s1 == [ss EXCEPT !.title = title,
                       !.article = Some(folder.content),
                       !.keywords = Some(OrEmpty(md.keywords)),
                       !.metaDescription = OrElse(md.metaDescription, ""),
                       !.metaTitle = OrElse(md.metaTitle, OrElse(md.title, folder.name)),
                       !.imageUrl = OrElse(md.imageUrl, Null),
                       !.inlineImages = OrEmpty(md.inlineImages),
                       !.contentFolder = Some(folder.name),
                       !.articles = Unshare(@)]
      loadedArticle ==
        [ id              |-> generateArticleId(t, r),
          title           |-> s1.title,
          content         |-> folder.content,
          keywords        |-> s1.keywords[1],
          metaDescription |-> s1.metaDescription,
          metaTitle       |-> s1.metaTitle,
          imageUrl        |-> s1.imageUrl,
          inlineImages    |-> s1.inlineImages,
          savedAt         |-> IF md.createdAt = None THEN Some(t) ELSE md.createdAt,
          published       |-> FALSE,
          publishedTo     |-> <<>>,
          publishedAt     |-> None,
          wordCount       |-> Some(WordCount(folder.content)),
          loadedFrom      |-> Some(folder.name),
          shared          |-> TRUE ]
      s2 == IF \E i \in 1..Len(s1.articles) : s1.articles[i].title = s1.title
              THEN s1
              ELSE [s1 EXCEPT !.articles = Append(@, loadedArticle)]
      sv == saveSession(s2, file, tmp, t, outcome)
  IN  IF ~folder.exists THEN NoSave(ss, file, tmp, FALSE)
      ELSE Outcome(s2, sv, sv.threw)

\* ------------------------------------------------------------ batch publish

CurrentId == <<"current">>    \* id: 'current' of the draft pseudo-article

\* Text around image placeholders.  "[IMAGE:" is the opening of a placeholder
\* in any case of its letters, "]" a closing bracket, " " a whitespace
\* character, every other entry a character that is none of these.
Opener == "[IMAGE:"
Closer == "]"

\* The first closing bracket at or after position i, 0 without one.
FirstCloser(content, i) ==
  IF \E j \in i..Len(content) : content[j] = Closer
    THEN CHOOSE j \in i..Len(content) :
           content[j] = Closer /\ \A q \in i..(j - 1) : content[q] # Closer
    ELSE 0

\* /\[IMAGE:\s*([^\]]+)\]/gi tried at position i: the position of the "]" that
\* ends the match, 0 without a match.  [^\]]+ wants one character at least.
MatchEnd(content, i) ==
  IF content[i] # Opener THEN 0
  ELSE LET j == FirstCloser(content, i + 1)
       IN  IF j > i + 1 THEN j ELSE 0

\* description.trim()
RECURSIVE Trim(_)
Trim(text) ==
  IF text = <<>> THEN <<>>
  ELSE IF IsSpace(Head(text)) THEN Trim(Tail(text))
  ELSE IF IsSpace(text[Len(text)]) THEN Trim(SubSeq(text, 1, Len(text) - 1))
  ELSE text

\* `![${description.trim()}](${imgUrl})`
MarkdownImage(description, imgUrl) ==
  <<"![">> \o Trim(description) \o <<"](", imgUrl, ")">>

\* Variant: imageIndex is not advanced.
RECURSIVE ReplaceFrom_SameImage(_, _, _, _)
ReplaceFrom_SameImage(content, i, imageUrls, imageIndex) ==
  IF i > Len(content) THEN <<>>
  ELSE IF MatchEnd(content, i) = 0
    THEN <<content[i]>> \o ReplaceFrom_SameImage(content, i + 1, imageUrls, imageIndex)
  ELSE IF imageIndex < Len(imageUrls)
    THEN MarkdownImage(SubSeq(content, i + 1, MatchEnd(content, i) - 1),
                       imageUrls[imageIndex + 1])
           \o ReplaceFrom_SameImage(content, MatchEnd(content, i) + 1, imageUrls,
                                    imageIndex)
    ELSE SubSeq(content, i, MatchEnd(content, i))
           \o ReplaceFrom_SameImage(content, MatchEnd(content, i) + 1, imageUrls,
                                    imageIndex)

\* content.replace(regex, callback) from position i on, imageIndex images used
\* so far: a match is replaced by the next image, or kept when none is left.
RECURSIVE ReplaceFrom(_, _, _, _)
ReplaceFrom(content, i, imageUrls, imageIndex) ==
  IF i > Len(content) THEN <<>>
  ELSE IF MatchEnd(content, i) = 0
    THEN <<content[i]>> \o ReplaceFrom(content, i + 1, imageUrls, imageIndex)
  ELSE IF imageIndex < Len(imageUrls)
    THEN MarkdownImage(SubSeq(content, i + 1, MatchEnd(content, i) - 1),
                       imageUrls[imageIndex + 1])
           \o ReplaceFrom(content, MatchEnd(content, i) + 1, imageUrls, imageIndex + 1)
    ELSE SubSeq(content, i, MatchEnd(content, i))
           \o ReplaceFrom(content, MatchEnd(content, i) + 1, imageUrls, imageIndex)

\* injectImagesIntoContent(content, imageUrls), and the same replace call
\* inlined in the legacy publish_content.
injectImagesIntoContent(content, imageUrls) == ReplaceFrom(content, 1, imageUrls, 0)

\* Variant: the numbered articles are taken whether published or not.
ArticlesToPublish_Published(ss, nums) ==
  LET unpublished(a) == ~a.published
      picked == AsArray([k \in 1..Len(nums) |-> nums[k]])
      valid(n) == n >= 1 /\ n <= Len(ss.articles)
      kept == SelectSeq(picked, valid)
  IN  IF Len(nums) > 0
        THEN AsArray([k \in 1..Len(kept) |-> ss.articles[kept[k]]])
        ELSE SelectSeq(ss.articles, unpublished)

\* Variant: without numbers every article is taken.
ArticlesToPublish_All(ss, nums) ==
  LET picked == AsArray([k \in 1..Len(nums) |-> nums[k]])
      valid(n) == n >= 1 /\ n <= Len(ss.articles) /\ ~ss.articles[n].published
      kept == SelectSeq(picked, valid)
  IN  IF Len(nums) > 0
        THEN AsArray([k \in 1..Len(kept) |-> ss.articles[kept[k]]])
        ELSE ss.articles

\* The articles publish_content selects.
ArticlesToPublish(ss, nums) ==
  LET unpublished(a) == ~a.published
      picked == AsArray([k \in 1..Len(nums) |-> nums[k]])
      valid(n) == n >= 1 /\ n <= Len(ss.articles) /\ ~ss.articles[n].published
      kept == SelectSeq(picked, valid)
  IN  IF Len(nums) > 0
        THEN AsArray([k \in 1..Len(kept) |-> ss.articles[kept[k]]])
        ELSE SelectSeq(ss.articles, unpublished)

\* The temporary article built from the working fields.
DraftArticle(ss) ==
  [ id              |-> CurrentId,
    title           |-> ss.title,
    content         |-> ss.article[1],
    keywords        |-> OrEmpty(ss.keywords),
    metaDescription |-> OrElse(ss.metaDescription, ""),
    metaTitle       |-> Undefined,
    imageUrl        |-> ss.imageUrl,
    inlineImages    |-> ss.inlineImages,
    savedAt         |-> None,
    published       |-> FALSE,
    publishedTo     |-> <<>>,
    publishedAt     |-> None,
    wordCount       |-> None,
    loadedFrom      |-> None,
    shared          |-> TRUE ]

\* The arguments of executeGhostPublish / executeWordPressPublish.
Dispatch(b, platform) ==
  LET article == b.arts[b.i] IN
  [ batch    |-> b.id,
    article  |-> article.id,
    platform |-> platform,
    payload  |-> [ title              |-> article.title,
                   content            |-> b.content,
                   status             |-> b.status,
                   categories         |-> IF platform = "WordPress"
                                            THEN Some(IF b.category = "" THEN <<>>
                                                      ELSE <<b.category>>)
                                            ELSE None,
                   tags               |-> article.keywords,
                   featured_image_url |-> article.imageUrl ] ]

ToLowerCase(platform) == IF platform = "Ghost" THEN "ghost" ELSE "wordpress"

FindIndex(articles, id) ==
  IF \E k \in 1..Len(articles) : articles[k].id = id
    THEN CHOOSE k \in 1..Len(articles) :
           articles[k].id = id /\ \A j \in 1..(k - 1) : articles[j].id # id
    ELSE 0

\* Variant: the flag is written with the outcome of every iteration.
MarkPublished_Outcome(ss, b, t) ==
  LET article  == b.arts[b.i]
      ok(p)    == p.success
      succeeded == SelectSeq(b.platforms, ok)
      idx      == FindIndex(ss.articles, article.id)
  IN  IF article.id # CurrentId /\ idx # 0
        THEN [ss EXCEPT !.articles[idx].published = Len(succeeded) > 0,
                        !.articles[idx].publishedTo =
                           AsArray([k \in 1..Len(succeeded) |->
                                      ToLowerCase(succeeded[k].platform)]),
                        !.articles[idx].publishedAt = Some(t)]
        ELSE ss

\* Variant: a draft that was published is kept as an article.
MarkPublished_KeepDraft(ss, b, t) ==
  LET article  == b.arts[b.i]
      ok(p)    == p.success
      succeeded == SelectSeq(b.platforms, ok)
      idx      == FindIndex(ss.articles, article.id)
      to       == AsArray([k \in 1..Len(succeeded) |-> ToLowerCase(succeeded[k].platform)])
  IN  IF Len(succeeded) > 0 /\ idx # 0
        THEN [ss EXCEPT !.articles[idx].published = TRUE,
                        !.articles[idx].publishedTo = to,
                        !.articles[idx].publishedAt = Some(t)]
      ELSE IF Len(succeeded) > 0
        THEN [ss EXCEPT !.articles =
                Append(@, [article EXCEPT !.published = TRUE, !.publishedTo = to,
                                          !.publishedAt = Some(t)])]
        ELSE ss

\* "Mark article as published" at the end of one iteration.
MarkPublished(ss, b, t) ==
  LET article  == b.arts[b.i]
      ok(p)    == p.success
      succeeded == SelectSeq(b.platforms, ok)
      idx      == FindIndex(ss.articles, article.id)
  IN  IF Len(succeeded) > 0 /\ article.id # CurrentId /\ idx # 0
        THEN [ss EXCEPT !.articles[idx].published = TRUE,
                        !.articles[idx].publishedTo =
                           AsArray([k \in 1..Len(succeeded) |->
                                      ToLowerCase(succeeded[k].platform)]),
                        !.articles[idx].publishedAt = Some(t)]
        ELSE ss

\* The for loop of handlePublishContent from position pos of iteration b.i up
\* to the next await (done = FALSE, b.wait says which) or the end of the loop.
RECURSIVE RunBatch(_, _, _, _, _)
RunBatch(ss, b, pos, disp, t) ==
  CASE pos = "iter" ->
         IF b.i > Len(b.arts)
           THEN [done |-> TRUE, state |-> ss, batch |-> b, dispatches |-> disp]
           ELSE RunBatch(ss,
                  [b EXCEPT !.content = injectImagesIntoContent(b.arts[b.i].content,
                                                                b.arts[b.i].inlineImages),
                            !.platforms = <<>>],
                  "ghost", disp, t)
    [] pos = "ghost" ->
         IF b.ghost
           THEN [done |-> FALSE, state |-> ss, batch |-> [b EXCEPT !.wait = "Ghost"],
                 dispatches |-> Append(disp, Dispatch(b, "Ghost"))]
           ELSE RunBatch(ss, b, "wordpress", disp, t)
    [] pos = "wordpress" ->
         IF b.wp
           THEN [done |-> FALSE, state |-> ss, batch |-> [b EXCEPT !.wait = "WordPress"],
                 dispatches |-> Append(disp, Dispatch(b, "WordPress"))]
           ELSE RunBatch(ss, b, "mark", disp, t)
    [] OTHER ->
         RunBatch(MarkPublished(ss, b, t),
           [b EXCEPT !.results = Append(@,
                        [ article   |-> b.arts[b.i].title,
                          articleId |-> b.arts[b.i].id,
                          wordCount |-> IF b.arts[b.i].wordCount # None
                                          THEN b.arts[b.i].wordCount[1]
                                          ELSE WordCount(b.content),
                          platforms |-> b.platforms ]),
                     !.i = @ + 1],
           "iter", disp, t)

\* handlePublishContent / case 'publish_content' from its start to the first
\* await, or to its end when it meets none.
PublishArgs ==
  { [platforms |-> pf, status |-> "draft", category |-> cat, article_numbers |-> nums] :
      pf \in {<<"all">>, <<"ghost">>}, cat \in {""},
      nums \in {<<>>, <<1>>, <<2>>, <<1, 1>>} }

handlePublishStart(ss, cr, id, args, disp, t) ==
  LET selected == ArticlesToPublish(ss, args.article_numbers)
      arts == IF Len(selected) = 0 /\ Len(args.article_numbers) = 0
                 /\ ~FalsyText(ss.article) /\ ~Falsy(ss.title)
                THEN <<DraftArticle(ss)>>
                ELSE selected
      Includes(x) == \E k \in 1..Len(args.platforms) : args.platforms[k] = x
      b == [ id |-> id, arts |-> arts, i |-> 1, wait |-> "", content |-> <<>>,
             platforms |-> <<>>, results |-> <<>>,
             ghost |-> ("ghost" \in cr) /\ (Includes("all") \/ Includes("ghost")),
             wp    |-> ("wordpress" \in cr) /\ (Includes("all") \/ Includes("wordpress")),
             status |-> args.status, category |-> args.category ]
  IN  IF Len(arts) = 0
        THEN [done |-> TRUE, noop |-> TRUE, state |-> ss, batch |-> b, dispatches |-> disp]
        ELSE [noop |-> FALSE] @@ RunBatch(ss, b, "iter", disp, t)

\* Variant: a failed publisher call ends the iteration.
handlePublishResume_StopOnFailure(ss, b, success, disp, t) ==
  RunBatch(ss,
    [b EXCEPT !.platforms = Append(@, [platform |-> b.wait, success |-> success]),
              !.wait = ""],
    IF b.wait = "Ghost" /\ success THEN "wordpress" ELSE "mark", disp, t)

\* The continuation after the awaited publisher call of batch b settles.
handlePublishResume(ss, b, success, disp, t) ==
  RunBatch(ss,
    [b EXCEPT !.platforms = Append(@, [platform |-> b.wait, success |-> success]),
              !.wait = ""],
    IF b.wait = "Ghost" THEN "wordpress" ELSE "mark", disp, t)

\* -------------------------------------------------------------------- state

\* A session of one saved article, as an earlier run of the program left it.
EarlierSession ==
  handleSaveContent(EmptySession, None, None, 0 - 1, 1,
    [title |-> "t1", content |-> <<"w", " ", "w">>, keywords |-> <<"k1">>,
     meta_description |-> "m1"], "ok").state

\* The second save_content of that session, without a meta description, and
\* the session it leaves.
LaterSave ==
  handleSaveContent(EarlierSession, None, None, 0, 1,
    [title |-> "T 2", content |-> <<"w">>, keywords |-> <<>>,
     meta_description |-> ""], "ok")

LaterSession == LaterSave.state

CredSets == {{"ghost", "wordpress"}, {"ghost"}}

NoRace == [p |-> <<>>, q |-> <<>>]

LockInit ==
  /\ sessionLock = FALSE
  /\ sessionLockQueue = <<>>
  /\ callerPc = [c \in Callers |-> "idle"]
  /\ lockCalls = 0
  /\ acquireOrder = <<>>
  /\ grantOrder = <<>>

\* A first start on a machine without a session file.
Init ==
  /\ impl \in {"modular", "legacy"}
  /\ proc = "down"
  /\ now = 0
  /\ sessionState = EmptySession
  /\ sessionFile = None
  /\ tmpFile = None
  /\ persisted = None
  /\ calls = 0
  /\ exits = 0
  /\ faults = 0
  /\ creds \in CredSets
  /\ batches = {}
  /\ dispatches = <<>>
  /\ race = NoRace
  /\ LockInit

\* ------------------------------------------------------------------ actions

Rands == 1..MaxRand

\* File-system behaviours open to a save inside a tool handler.  The three
\* errors leave the same files, so one stands for them here.  A process that
\* dies inside the save leaves what Exit before the handler leaves, but for
\* the temporary file.  SafeResume has every one of these cases.
Outcomes == {"ok"} \cup (IF faults < MaxFaults THEN {"rename_error"} ELSE {})

\* The state a handler (or one synchronous stretch of it) leaves.
Finish(res, newBatches, newDispatches) ==
  /\ sessionState' = res.state
  /\ sessionFile' = res.file
  /\ tmpFile' = res.tmp
  /\ persisted' = IF res.file = None THEN None
                  ELSE IF res.saved THEN Some(res.snap) ELSE persisted
  /\ faults' = IF res.failed THEN faults + 1 ELSE faults
  /\ batches' = newBatches
  /\ dispatches' = newDispatches
  /\ UNCHANGED <<proc, exits>>

BatchesUnshared == {[b EXCEPT !.arts = Unshare(@)] : b \in batches}

BatchesPushed(url) ==
  {[b EXCEPT !.arts = AsArray([i \in 1..Len(@) |->
       IF @[i].shared THEN [@[i] EXCEPT !.inlineImages = Append(@, url)] ELSE @[i]])] :
     b \in batches}

\* The loader main() runs, on module-level state that is fresh.
LoadAtStart(im, file, t, r) ==
  IF im = "modular" THEN restoreSession(EmptySession, file, t)
  ELSE loadSession(EmptySession, file, t, r)

\* main(): the persisted session is loaded.
Start ==
  /\ proc = "down"
  /\ \E r \in Rands :
       LET ld == LoadAtStart(impl, sessionFile, now, r)
       IN  /\ sessionState' = ld.state
           /\ sessionFile' = ld.file
           /\ persisted' = IF ld.file = None THEN None ELSE persisted
  /\ proc' = "up"
  /\ UNCHANGED <<impl, now, tmpFile, calls, exits, faults, creds, batches,
                 dispatches, race, lockVars>>

\* Module-level state of a process that has ended: the lock, its queue and
\* every pending saveSessionSafe call are gone.
LockGone ==
  /\ sessionLock' = FALSE
  /\ sessionLockQueue' = <<>>
  /\ callerPc' = [c \in Callers |-> "idle"]
  /\ acquireOrder' = <<>>
  /\ grantOrder' = <<>>

\* The process ends (exit, kill, crash) between two handlers or at an await.
Exit ==
  /\ proc = "up"
  /\ exits < MaxExits
  /\ proc' = "down"
  /\ sessionState' = EmptySession
  /\ batches' = {}
  /\ exits' = exits + 1
  /\ LockGone
  /\ UNCHANGED <<impl, now, sessionFile, tmpFile, persisted, calls, faults, creds,
                 dispatches, race, lockCalls>>

\* Time passes: the expiry period.
Tick ==
  /\ now \div SESSION_EXPIRY_MS < MaxDays
  /\ now' = now + SESSION_EXPIRY_MS
  /\ UNCHANGED <<impl, proc, sessionState, sessionFile, tmpFile, persisted, calls, exits,
                 faults, creds, batches, dispatches, race, lockVars>>

CanCall == proc = "up" /\ calls < MaxCalls

CallFrame ==
  /\ calls' = calls + 1
  /\ UNCHANGED <<impl, now, creds, race, lockVars>>

CreateContentWith(count, configOk, o) ==
  /\ CanCall
  /\ Finish(handleCreateContent(impl, sessionState, sessionFile, tmpFile,
                                now, count, configOk, o),
            batches, dispatches)
  /\ CallFrame

CreateContent ==
  \E count \in Counts, configOk \in BOOLEAN, o \in Outcomes :
    CreateContentWith(count, configOk, o)

SaveContentWith(args, r, o) ==
  /\ CanCall
  /\ Finish(handleSaveContent(sessionState, sessionFile, tmpFile, now, r, args, o),
            BatchesUnshared, dispatches)
  /\ CallFrame

SaveContent == \E args \in SaveArgs, r \in Rands, o \in Outcomes : SaveContentWith(args, r, o)

GenerateImage ==
  /\ CanCall
  /\ \E url \in Urls, o \in Outcomes :
       Finish(storeImageInSession(sessionState, sessionFile, tmpFile, now, url, o),
              IF Falsy(sessionState.imageUrl) THEN batches ELSE BatchesPushed(url),
              dispatches)
  /\ CallFrame

LoadContentWith(folder, r, o) ==
  /\ CanCall
  /\ Finish(handleLoadContent(sessionState, sessionFile, tmpFile, now, r, folder, o),
            IF folder.exists THEN BatchesUnshared ELSE batches, dispatches)
  /\ CallFrame

LoadContent ==
  \E folder \in Folders, r \in Rands, o \in Outcomes : LoadContentWith(folder, r, o)

RemoveInputs == {<<>>, <<1>>, <<2>>, <<1, 2>>, <<2, 1>>, <<1, 1>>, <<3>>}

RemoveArticleWith(nums, o) ==
  /\ CanCall
  /\ Finish(handleRemoveArticle(sessionState, sessionFile, tmpFile, now, nums, o),
            batches, dispatches)
  /\ CallFrame

RemoveArticle == \E nums \in RemoveInputs, o \in Outcomes : RemoveArticleWith(nums, o)

ClearSessionWith(confirm) ==
  /\ CanCall
  /\ Finish(handleClearSession(impl, sessionState, sessionFile, tmpFile, confirm),
            batches, dispatches)
  /\ CallFrame

ClearSession == \E confirm \in BOOLEAN : ClearSessionWith(confirm)

\* Variant: the session is saved at every await of the loop as well.
PublishEnd_EveryAwait(run, o) ==
  IF ~run.noop
    THEN Outcome(run.state, saveSession(run.state, sessionFile, tmpFile, now, o), FALSE)
    ELSE NoSave(run.state, sessionFile, tmpFile, FALSE)

\* The end of handlePublishContent: saveSession() after the loop.
PublishEnd(run, o) ==
  IF run.done /\ ~run.noop
    THEN Outcome(run.state, saveSession(run.state, sessionFile, tmpFile, now, o), FALSE)
    ELSE NoSave(run.state, sessionFile, tmpFile, FALSE)

PublishContentWith(args, o) ==
  /\ CanCall
  /\ Cardinality(batches) < MaxBatches
  /\ LET run == handlePublishStart(sessionState, creds, calls + 1, args, dispatches, now)
     IN  Finish(PublishEnd(run, o),
                IF run.done THEN batches ELSE batches \cup {run.batch},
                run.dispatches)
  /\ CallFrame

PublishContent == \E args \in PublishArgs, o \in Outcomes : PublishContentWith(args, o)

\* The publisher call batch b awaits settles: it returned (success) or threw.
PublisherReturnsWith(b, success, o) ==
  /\ proc = "up"
  /\ LET run == [noop |-> FALSE] @@
                handlePublishResume(sessionState, b, success, dispatches, now)
     IN  Finish(PublishEnd(run, o),
                IF run.done THEN batches \ {b} ELSE (batches \ {b}) \cup {run.batch},
                run.dispatches)
  /\ UNCHANGED <<impl, now, calls, creds, race, lockVars>>

PublisherReturns ==
  \E b \in batches, success \in BOOLEAN, o \in Outcomes : PublisherReturnsWith(b, success, o)

Next ==
  \/ Start
  \/ Exit
  \/ Tick
  \/ CreateContent
  \/ SaveContent
  \/ GenerateImage
  \/ LoadContent
  \/ RemoveArticle
  \/ ClearSession
  \/ PublishContent
  \/ PublisherReturns

Spec == Init /\ [][Next]_vars

\* ------------------------------------------------- loading a session file

\* Session files the first start may find, with the session each was written
\* from: none; the snapshots saveSession wrote of three sessions at time 0;
\* one whose savedAt is missing; one in the old single-article format (no
\* articles key); one that is not a JSON document.
LoadSamples ==
  { [file |-> None, from |-> None] }
  \cup { [file |-> Some(ToJSON(ss, 0)), from |-> Some(ss)] :
           ss \in {EmptySession, EarlierSession, LaterSession} }
  \cup { [file |-> Some([ToJSON(EarlierSession, 0) EXCEPT !.savedAt = None]), from |-> None],
         [file |-> Some([ToJSON(EmptySession, 0) EXCEPT
                    !.articlesPresent = FALSE, !.article = Some(<<"w">>), !.title = "t1",
                    !.imageUrl = "u1", !.inlineImages = <<"u2">>,
                    !.keywords = Some(<<"k1">>), !.metaTitle = Undefined,
                    !.metaDescription = "m1"]), from |-> None],
         [file |-> Some(TornFile), from |-> None] }

InitLoad ==
  /\ impl \in {"modular", "legacy"}
  /\ proc = "down"
  /\ now \in 0..MaxMs
  /\ sessionState = EmptySession
  /\ \E sample \in LoadSamples :
       /\ sessionFile = sample.file
       /\ persisted = sample.from
  /\ tmpFile = None
  /\ calls = 0
  /\ exits = 0
  /\ faults = 0
  /\ creds \in CredSets
  /\ batches = {}
  /\ dispatches = <<>>
  /\ race = NoRace
  /\ LockInit

NextLoad ==
  \/ Start
  \/ Exit
  \/ Tick

SpecLoad == InitLoad /\ [][NextLoad]_vars

\* ------------------------------------------------------- saveSessionSafe

\* await acquireSessionLock(), up to the await.  "acquired": the promise was
\* resolved at once; "waiting": the resolve callback is in the queue.
SafeCall(c) ==
  /\ proc = "up"
  /\ callerPc[c] = "idle"
  /\ lockCalls < MaxLockCalls
  /\ LET a == acquireSessionLock(sessionLock, sessionLockQueue, c)
     IN  /\ sessionLock' = a.sessionLock
         /\ sessionLockQueue' = a.sessionLockQueue
         /\ callerPc' = [callerPc EXCEPT ![c] = IF a.granted THEN "acquired" ELSE "waiting"]
         /\ grantOrder' = IF a.granted THEN Append(grantOrder, c) ELSE grantOrder
  /\ acquireOrder' = Append(acquireOrder, c)
  /\ lockCalls' = lockCalls + 1
  /\ UNCHANGED sessVars

\* Failures and crashes open to the save of a saveSessionSafe call.
SafeOutcomes ==
  {"ok"} \cup (IF faults < MaxFaults THEN SaveErrors ELSE {})
         \cup (IF faults < MaxFaults /\ exits < MaxExits THEN SaveCrashes ELSE {})

\* The rest of saveSessionSafe once the acquire has resolved:
\* try { saveSession() } finally { releaseSessionLock() }.  "threw": the call
\* ended with the exception saveSession let out.
SafeResume(c) ==
  /\ proc = "up"
  /\ callerPc[c] \in {"acquired", "woken"}
  /\ \E o \in SafeOutcomes :
       LET sv  == saveSession(sessionState, sessionFile, tmpFile, now, o)
           rel == releaseSessionLock(sessionLock, sessionLockQueue)
       IN  /\ sessionFile' = sv.file
           /\ tmpFile' = sv.tmp
           /\ persisted' = IF sv.saved THEN Some(sv.snap) ELSE persisted
           /\ faults' = IF sv.failed \/ sv.threw \/ sv.crashed THEN faults + 1 ELSE faults
           /\ IF sv.crashed
                THEN /\ proc' = "down"
                     /\ sessionState' = EmptySession
                     /\ exits' = exits + 1
                     /\ LockGone
                ELSE /\ sessionLock' = rel.sessionLock
                     /\ sessionLockQueue' = rel.sessionLockQueue
                     /\ callerPc' = [d \in Callers |->
                          IF d = c THEN (IF sv.threw THEN "threw" ELSE "idle")
                          ELSE IF \E k \in 1..Len(rel.next) : rel.next[k] = d THEN "woken"
                          ELSE callerPc[d]]
                     /\ grantOrder' = grantOrder \o rel.next
                     /\ UNCHANGED <<proc, sessionState, exits, acquireOrder>>
  /\ UNCHANGED <<impl, now, calls, creds, batches, dispatches, race, lockCalls>>

\* A running server whose session some tool calls have filled.
InitLock ==
  /\ impl = "modular"
  /\ proc = "up"
  /\ now = 0
  /\ sessionState \in {EmptySession, EarlierSession}
  /\ sessionFile = None
  /\ tmpFile = None
  /\ persisted = None
  /\ calls = 0
  /\ exits = 0
  /\ faults = 0
  /\ creds = {"ghost", "wordpress"}
  /\ batches = {}
  /\ dispatches = <<>>
  /\ race = NoRace
  /\ LockInit

NextLock ==
  \/ \E c \in Callers : SafeCall(c)
  \/ \E c \in Callers : SafeResume(c)
  \/ Tick
  \/ Start

SpecLock == InitLock /\ [][NextLock]_vars

\* ------------------------------------------------- two overlapping calls

\* The second call of a two-call schedule.
RaceCalls ==
  { [tool |-> "remove_article", nums |-> nums, count |-> 0, args |-> <<>>] :
      nums \in RemoveInputs }
  \cup { [tool |-> "clear_session", nums |-> <<>>, count |-> 0, args |-> <<>>] }
  \cup { [tool |-> "create_content", nums |-> <<>>, count |-> count, args |-> <<>>] :
           count \in Counts }
  \cup { [tool |-> "publish_content", nums |-> <<>>, count |-> 0, args |-> <<args>>] :
           args \in PublishArgs }

\* A running server with two saved, unpublished articles; a client about to
\* call publish_content (race.p) and one more tool (race.q).
InitRace ==
  /\ impl \in {"modular", "legacy"}
  /\ proc = "up"
  /\ now = 0
  /\ sessionState = LaterSession
  /\ sessionFile = LaterSave.file
  /\ tmpFile = None
  /\ persisted = Some(LaterSave.snap)
  /\ calls = 0
  /\ exits = 0
  /\ faults = 0
  /\ creds \in CredSets
  /\ batches = {}
  /\ dispatches = <<>>
  /\ race \in [p : {<<args>> : args \in PublishArgs}, q : {<<call>> : call \in RaceCalls}]
  /\ LockInit

\* The client calls publish_content.
RaceP ==
  /\ calls = 0
  /\ PublishContentWith(race.p[1], "ok")

\* The client calls the other tool, whether or not the batch has ended.
RaceQ ==
  /\ calls = 1
  /\ LET q == race.q[1] IN
       CASE q.tool = "remove_article" -> RemoveArticleWith(q.nums, "ok")
         [] q.tool = "clear_session"  -> ClearSessionWith(TRUE)
         [] q.tool = "create_content" -> CreateContentWith(q.count, TRUE, "ok")
         [] OTHER                     -> PublishContentWith(q.args[1], "ok")

\* A publisher call returns its post.
RaceReturns == \E b \in batches : PublisherReturnsWith(b, TRUE, "ok")

NextRace ==
  \/ RaceP
  \/ RaceQ
  \/ RaceReturns

SpecRace == InitRace /\ [][NextRace]_vars

\* publish_content run from its start to its end with nothing in between,
\* every publisher call returning its post.
RECURSIVE SettleBatch(_, _)
SettleBatch(run, t) ==
  IF run.done THEN [state |-> run.state, dispatches |-> run.dispatches]
  ELSE SettleBatch(handlePublishResume(run.state, run.batch, TRUE, run.dispatches, t), t)

\* One tool call run alone on session ss: the session and the publisher calls
\* it leaves.
SerialCall(im, ss, cr, id, call, disp, t) ==
  CASE call.tool = "publish_content" ->
         SettleBatch(handlePublishStart(ss, cr, id, call.args[1], disp, t), t)
    [] call.tool = "remove_article" ->
         [state |-> handleRemoveArticle(ss, None, None, t, call.nums, "ok").state,
          dispatches |-> disp]
    [] call.tool = "clear_session" ->
         [state |-> handleClearSession(im, ss, None, None, TRUE).state, dispatches |-> disp]
    [] OTHER ->
         [state |-> handleCreateContent(im, ss, None, None, t, call.count, TRUE, "ok").state,
          dispatches |-> disp]

\* Two tool calls run one after the other from session ss.
SerialRun(ss, first, second) ==
  LET r1 == SerialCall(impl, ss, creds, 1, first, <<>>, now)
  IN  SerialCall(impl, r1.state, creds, 2, second, r1.dispatches, now)

\* The (article, platform) pairs of a sequence of publisher calls.
DispatchSet(disp) == {<<disp[k].article, disp[k].platform>> : k \in 1..Len(disp)}

\* ------------------------------------------------------------ properties

\* The callers whose acquireSessionLock has resolved and who have not released.
Holders == {c \in Callers : callerPc[c] \in {"acquired", "woken"}}

\* C2: at most one caller holds the session lock at any time, and the lock
\* flag is set while one does; so an acquire made meanwhile has not resolved.
C2_MutualExclusion ==
  /\ Cardinality(Holders) <= 1
  /\ Holders # {} => sessionLock
  /\ \A c \in Callers : callerPc[c] = "waiting" => Holders # {}

\* One caller holds the lock while another's acquire is pending.
C2_HeldWhileWaiting ==
  \E c, d \in Callers : c \in Holders /\ callerPc[d] = "waiting"

\* C3: the lock is FIFO.  Callers obtain the lock in the order in which they
\* called acquireSessionLock: the grants are a prefix of the acquires, the
\* queue holds the remaining acquirers in order, and a release wakes one
\* waiter only.
C3_FifoOrder ==
  /\ Len(grantOrder) <= Len(acquireOrder)
  /\ grantOrder = SubSeq(acquireOrder, 1, Len(grantOrder))
  /\ sessionLockQueue = SubSeq(acquireOrder, Len(grantOrder) + 1, Len(acquireOrder))
  /\ Cardinality({c \in Callers : callerPc[c] = "woken"}) <= 1

\* A release has woken a waiter while another one stays queued.
C3_WokenWithWaiters ==
  /\ \E c \in Callers : callerPc[c] = "woken"
  /\ Len(sessionLockQueue) >= 1

\* C4: two overlapping tool calls leave the session state and the set of
\* (article, platform) publisher calls that running them one after the other,
\* in one order or the other, leaves.
C4_Serializable ==
  (race # NoRace /\ calls = 2 /\ batches = {}) =>
    LET p == [tool |-> "publish_content", nums |-> <<>>, count |-> 0, args |-> race.p]
        q == race.q[1]
        Same(r) == /\ sessionState = r.state
                   /\ DispatchSet(dispatches) = DispatchSet(r.dispatches)
    IN  Same(SerialRun(LaterSession, p, q)) \/ Same(SerialRun(LaterSession, q, p))

\* The session file is a JSON document that carries a time stamp.
Stamped ==
  /\ sessionFile # None
  /\ ~sessionFile[1].torn
  /\ sessionFile[1].savedAt # None

\* Session object st holds what a loader assigns from the parsed file saved.
RestoredFrom(saved, st) ==
  /\ st.currentWorkflow = saved.currentWorkflow
  /\ saved.articlesPresent => st.articles = saved.articles
  /\ st.article = saved.article
  /\ st.title = OrElse(saved.title, Null)
  /\ st.inlineImages = saved.inlineImages
  /\ st.keywords = saved.keywords
  /\ st.contentFolder = saved.contentFolder

\* C5: a load restores the persisted session if its savedAt is at most 24
\* hours old; if it is older, every in-memory field has its default value
\* after the load.
C5_RestoreIffFresh ==
  [][ (Start /\ Stamped) =>
        IF now - sessionFile[1].savedAt[1] <= SESSION_EXPIRY_MS
          THEN RestoredFrom(sessionFile[1], sessionState')
          ELSE sessionState' = EmptySession ]_vars

\* A session of one article, restored at the age of 24 hours exactly.
C5_RestoredAtLimit ==
  /\ proc = "up"
  /\ Stamped
  /\ now - sessionFile[1].savedAt[1] = SESSION_EXPIRY_MS
  /\ sessionState.articles # <<>>
  /\ sessionState.articles = sessionFile[1].articles

\* C6: loading a session file that carries no time stamp restores nothing:
\* the in-memory session has its defaults afterwards.
C6_UnstampedNotRestored ==
  [][ (Start /\ sessionFile # None /\ ~sessionFile[1].torn
             /\ sessionFile[1].savedAt = None)
        => sessionState' = EmptySession ]_vars

C1_MutationUnderLock ==
  [][ (proc = "up" /\ proc' = "up" /\ sessionState' # sessionState) => sessionLock ]_vars

\* What a load would restore from the session file as it is now.
LoadAfter == LoadAtStart(impl, sessionFile, now, 1).state

\* C8: a reset (clear_session with confirm, the reset that starts
\* create_content) clears the in-memory session and deletes the session file:
\* a load made afterwards yields the empty session, and after create_content
\* none of the cleared articles.
C8_ResetDeletesFile ==
  [][ /\ ClearSessionWith(TRUE)
           => (sessionState' = EmptySession /\ sessionFile' = None
               /\ LoadAfter' = EmptySession)
      /\ CreateContent => LoadAfter'.articles = <<>> ]_vars

\* The session file is restorable now, and persisted is what it was written from.
Fresh ==
  /\ Stamped
  /\ persisted # None
  /\ now - sessionFile[1].savedAt[1] <= SESSION_EXPIRY_MS

\* The fields of a session that the round trip is about; an article is taken
\* by its values.
RoundTripFields(ss) ==
  [ currentWorkflow |-> ss.currentWorkflow,
    articles        |-> SeqMap(ArticleToJSON, ss.articles),
    article         |-> ss.article,
    title           |-> ss.title,
    imageUrl        |-> ss.imageUrl,
    inlineImages    |-> ss.inlineImages,
    keywords        |-> ss.keywords,
    metaTitle       |-> ss.metaTitle,
    metaDescription |-> ss.metaDescription,
    contentFolder   |-> ss.contentFolder ]

\* The same, with an empty draft text or string taken as null.
RoundTripFieldsOrNull(ss) ==
  [ RoundTripFields(ss) EXCEPT
      !.article         = IF FalsyText(@) THEN None ELSE @,
      !.title           = OrElse(@, Null),
      !.imageUrl        = OrElse(@, Null),
      !.metaTitle       = OrElse(@, Null),
      !.metaDescription = OrElse(@, Null) ]

\* C9 as stated: a session persisted and loaded within 24 hours is restored
\* with the workflow, the articles, the draft fields and the content folder
\* it had in memory when it was persisted.
C9_RoundTripExact ==
  [][ (Start /\ Fresh) => RoundTripFields(sessionState') = RoundTripFields(persisted[1]) ]_vars

\* C9, amended: the same, except that a draft field that held the empty
\* string when persisted is restored as null.
C9_RoundTripOrNull ==
  [][ (Start /\ Fresh) =>
        RoundTripFields(sessionState') = RoundTripFieldsOrNull(persisted[1]) ]_vars

\* After a restart: the articles are those persisted, the empty meta
\* description has come back as null.
C9_RestoredAfterRestart ==
  /\ proc = "up"
  /\ exits >= 1
  /\ persisted # None
  /\ sessionState.articles # <<>>
  /\ sessionState.articles = SeqMap(ArticleToJSON, persisted[1].articles)
  /\ persisted[1].metaDescription = ""
  /\ sessionState.metaDescription = Null

\* C10: save_content appends one article, unpublished, with the draft's cover
\* image and a copy of its inline images; the draft images are cleared; the
\* articles saved before keep their values and positions.
C10_SaveAppendsOne ==
  [][ SaveContent =>
        LET old == sessionState.articles
            new == sessionState'.articles
        IN  /\ Len(new) = Len(old) + 1
            /\ \A i \in 1..Len(old) : ArticleToJSON(new[i]) = ArticleToJSON(old[i])
            /\ ~new[Len(new)].published
            /\ new[Len(new)].publishedTo = <<>>
            /\ new[Len(new)].imageUrl = OrElse(sessionState.imageUrl, Null)
            /\ new[Len(new)].inlineImages = sessionState.inlineImages
            /\ ~new[Len(new)].shared
            /\ sessionState'.imageUrl = Null
            /\ sessionState'.inlineImages = <<>> ]_vars

\* A second article saved with the images the draft held, the draft's images
\* cleared.
C10_SavedWithImages ==
  /\ Len(sessionState.articles) >= 2
  /\ LET a == sessionState.articles[Len(sessionState.articles)]
     IN  /\ a.loadedFrom = None
         /\ a.wordCount # None
         /\ a.imageUrl # Null
         /\ a.inlineImages # <<>>
         /\ ~a.published
  /\ sessionState.imageUrl = Null
  /\ sessionState.inlineImages = <<>>

\* ------------------------------------------------ save_content on any text

MaxLen == 4

\* Every text of n characters.
RECURSIVE Texts(_)
Texts(n) ==
  IF n = 0 THEN {<<>>}
  ELSE {Append(s, ch) : s \in Texts(n - 1), ch \in {"w", " "}}

Contents == UNION {Texts(n) : n \in 0..MaxLen}

\* A running server with an empty session; a client about to call
\* save_content with the arguments race.p.
InitWords ==
  /\ impl \in {"modular", "legacy"}
  /\ proc = "up"
  /\ now = 0
  /\ sessionState = EmptySession
  /\ sessionFile = None
  /\ tmpFile = None
  /\ persisted = None
  /\ calls = 0
  /\ exits = 0
  /\ faults = 0
  /\ creds = {"ghost", "wordpress"}
  /\ batches = {}
  /\ dispatches = <<>>
  /\ race \in [p : {<<[title |-> "t1", content |-> c, keywords |-> <<>>,
                       meta_description |-> ""]>> : c \in Contents},
               q : {<<>>}]
  /\ LockInit

\* The client calls save_content.
SaveWords == \E r \in Rands, o \in Outcomes : SaveContentWith(race.p[1], r, o)

NextWords ==
  \/ SaveWords
  \/ Tick

SpecWords == InitWords /\ [][NextWords]_vars

\* The whitespace-delimited tokens of a text: its maximal runs of
\* non-whitespace characters.
Tokens(content) ==
  Cardinality({i \in 1..Len(content) :
     ~IsSpace(content[i]) /\ (i = 1 \/ IsSpace(content[i - 1]))})

\* C11: the wordCount of every saved article is the number of
\* whitespace-delimited tokens of its content.
C11_WordCountIsTokens ==
  \A i \in 1..Len(sessionState.articles) :
    LET a == sessionState.articles[i]
    IN  a.wordCount = Some(Tokens(a.content))

\* ---------------------------------------------- remove_article on any list

MaxArticles == 3
MaxNums == 3

\* The session after save_content of the n-th article "a<n>" on session prev,
\* and after a batch that published it to Ghost when flag = TRUE.
SavedNext(prev, n, flag) ==
  LET t  == n - (MaxArticles + 1)
      s1 == handleSaveContent(prev, None, None, t, 1,
              [title |-> "a" \o ToString(n), content |-> <<"w">>,
               keywords |-> <<>>, meta_description |-> ""], "ok").state
      b  == [arts |-> <<s1.articles[n]>>, i |-> 1,
             platforms |-> <<[platform |-> "Ghost", success |-> TRUE]>>]
  IN  IF flag THEN MarkPublished(s1, b, t) ELSE s1

\* The session a run of the program leaves that saved Len(flags) articles one
\* after the other and published those with flags[n] = TRUE.
RECURSIVE SessionOf(_)
SessionOf(flags) ==
  IF flags = <<>> THEN EmptySession
  ELSE SavedNext(SessionOf(SubSeq(flags, 1, Len(flags) - 1)), Len(flags),
                 flags[Len(flags)])

RECURSIVE FlagLists(_)
FlagLists(n) ==
  IF n = 0 THEN {<<>>}
  ELSE {Append(f, x) : f \in FlagLists(n - 1), x \in BOOLEAN}

Sessions == {SessionOf(f) : f \in UNION {FlagLists(n) : n \in 0..MaxArticles}}

\* Every article_numbers list of n numbers.
RECURSIVE NumLists(_)
NumLists(n) ==
  IF n = 0 THEN {<<>>}
  ELSE {Append(l, x) : l \in NumLists(n - 1), x \in 0..(MaxArticles + 1)}

ArticleNumbers == UNION {NumLists(n) : n \in 0..MaxNums}

\* A running server whose session is one of Sessions; a client about to call
\* remove_article with the numbers race.q.
InitRemove ==
  /\ impl \in {"modular", "legacy"}
  /\ proc = "up"
  /\ now = 0
  /\ sessionState \in Sessions
  /\ LET sv == saveSession(sessionState, None, None, 0 - 1, "ok")
     IN  /\ sessionFile = sv.file
         /\ persisted = Some(sv.snap)
  /\ tmpFile = None
  /\ calls = 0
  /\ exits = 0
  /\ faults = 0
  /\ creds = {"ghost", "wordpress"}
  /\ batches = {}
  /\ dispatches = <<>>
  /\ race \in [p : {<<>>},
               q : {<<[tool |-> "remove_article", nums |-> nums, count |-> 0,
                       args |-> <<>>]>> : nums \in ArticleNumbers}]
  /\ LockInit

\* The client calls remove_article.
RemoveCall ==
  /\ calls = 0
  /\ \E o \in Outcomes : RemoveArticleWith(race.q[1].nums, o)

NextRemove ==
  \/ RemoveCall
  \/ Tick

SpecRemove == InitRemove /\ [][NextRemove]_vars

\* The published articles of a sequence, in order.
PublishedOf(articles) ==
  LET pub(a) == a.published IN SelectSeq(articles, pub)

\* The entries of a sequence.
Range(seq) == {seq[k] : k \in 1..Len(seq)}

\* C12: remove_article keeps every published article; it reports a requested
\* published article as skipped 'already published' and a number out of range
\* as skipped 'not found', reports every requested number, and does not throw.
C12_PublishedNeverRemoved ==
  [][ RemoveCall =>
        LET old  == sessionState.articles
            nums == race.q[1].nums
            res  == RemoveLoop(old, SortDesc(nums), <<>>, <<>>)
            out  == handleRemoveArticle(sessionState, sessionFile, tmpFile, now, nums, "ok")
        IN  /\ PublishedOf(sessionState'.articles) = PublishedOf(old)
            /\ \A k \in 1..Len(nums) :
                 IF nums[k] \notin 1..Len(old)
                   THEN \E e \in Range(res.skipped) :
                          e.num = nums[k] /\ e.reason = "not found"
                 ELSE old[nums[k]].published =>
                        \E e \in Range(res.skipped) :
                          e.num = nums[k] /\ e.reason = "already published"
            /\ Len(res.removed) + Len(res.skipped) = Len(nums)
            /\ ~out.threw ]_vars

\* remove_article [1, 2, 4] has removed "a1" and left the published "a2".
C12_PublishedSkipped ==
  /\ calls = 1
  /\ race.q # <<>>
  /\ race.q[1].nums = <<1, 2, 4>>
  /\ Len(sessionState.articles) = 2
  /\ sessionState.articles[1].title = "a2"
  /\ sessionState.articles[1].published
  /\ sessionState.articles[2].title = "a3"

\* The articles of a sequence that stand at none of the positions drop.
RECURSIVE Without(_, _, _)
Without(articles, drop, k) ==
  IF k > Len(articles) THEN <<>>
  ELSE (IF k \in drop THEN <<>> ELSE <<articles[k]>>) \o Without(articles, drop, k + 1)

\* C13: remove_article removes exactly the unpublished articles that stood at
\* the requested positions before the call and keeps the others in order.
C13_RemovesExactlyRequested ==
  [][ RemoveCall =>
        LET old  == sessionState.articles
            nums == race.q[1].nums
            drop == {n \in Range(nums) : n \in 1..Len(old) /\ ~old[n].published}
        IN  sessionState'.articles = Without(old, drop, 1) ]_vars

\* ----------------------------------------------------- the published flag

\* s is t with some of its entries left out.
RECURSIVE IsSubseq(_, _)
IsSubseq(s, t) ==
  IF s = <<>> THEN TRUE
  ELSE IF t = <<>> THEN FALSE
  ELSE IF Head(s) = Head(t) THEN IsSubseq(Tail(s), Tail(t))
  ELSE IsSubseq(s, Tail(t))

\* The id and title of every published article, in session order.
PublishedIds(articles) ==
  LET pub == PublishedOf(articles)
  IN  AsArray([k \in 1..Len(pub) |-> <<pub[k].id, pub[k].title>>])

\* A step of save_content, load_content, generate_image, remove_article or
\* publish_content (the call, or its continuation after an await).
ContentToolStep ==
  \/ SaveContent
  \/ LoadContent
  \/ GenerateImage
  \/ RemoveArticle
  \/ PublishContent
  \/ PublisherReturns

\* C14: a step of save_content, load_content, generate_image, remove_article
\* or publish_content leaves every published article in the session, and
\* published.
C14_PublishedStays ==
  [][ ContentToolStep =>
        IsSubseq(PublishedIds(sessionState.articles),
                 PublishedIds(sessionState'.articles)) ]_vars

\* A published article is followed by one saved after the batch.
C14_SavedAfterPublish ==
  /\ calls = 3
  /\ Len(sessionState.articles) = 2
  /\ sessionState.articles[1].published
  /\ sessionState.articles[1].publishedAt # None
  /\ sessionState.articles[2].savedAt # None
  /\ sessionState.articles[2].savedAt[1] >= sessionState.articles[1].publishedAt[1]
  /\ ~sessionState.articles[2].published

\* -------------------------------------------------------------- article ids

MaxSuffix == 2
MaxIdMs == 2

\* Math.random().toString(36).substring(2, 8): the suffixes two calls can draw.
Suffixes == 1..MaxSuffix

\* A server that has just started without a session file.
InitIds ==
  /\ impl \in {"modular", "legacy"}
  /\ proc = "up"
  /\ now = 0
  /\ sessionState = EmptySession
  /\ sessionFile = None
  /\ tmpFile = None
  /\ persisted = None
  /\ calls = 0
  /\ exits = 0
  /\ faults = 0
  /\ creds = {"ghost", "wordpress"}
  /\ batches = {}
  /\ dispatches = <<>>
  /\ race = NoRace
  /\ LockInit

SaveWithId == \E args \in SaveArgs, r \in Suffixes : SaveContentWith(args, r, "ok")

LoadWithId == \E folder \in Folders, r \in Suffixes : LoadContentWith(folder, r, "ok")

\* Date.now() moves on by a millisecond.
TickMs ==
  /\ now < MaxIdMs
  /\ now' = now + 1
  /\ UNCHANGED <<impl, proc, sessionState, sessionFile, tmpFile, persisted, calls, exits,
                 faults, creds, batches, dispatches, race, lockVars>>

NextIds ==
  \/ SaveWithId
  \/ LoadWithId
  \/ TickMs

SpecIds == InitIds /\ [][NextIds]_vars

\* C15: the ids of the articles in the session are pairwise distinct.
C15_UniqueIds ==
  \A i, j \in 1..Len(sessionState.articles) :
    i # j => sessionState.articles[i].id # sessionState.articles[j].id

\* -------------------------------------------------- one publish_content call

MaxPubArticles == 2
MaxPubNums == 2

\* Sessions a publish batch starts from: up to MaxPubArticles saved articles,
\* some of them published, the draft fields those of the last save; and the
\* session whose one article was removed, which keeps its draft.
PubSessions ==
  {SessionOf(f) : f \in UNION {FlagLists(n) : n \in 0..MaxPubArticles}}
  \cup {handleRemoveArticle(SessionOf(<<FALSE>>), None, None, 0 - 1, <<1>>, "ok").state}

RECURSIVE PubNumLists(_)
PubNumLists(n) ==
  IF n = 0 THEN {<<>>}
  ELSE {Append(l, x) : l \in PubNumLists(n - 1), x \in 0..(MaxPubArticles + 1)}

\* publish_content arguments: every platforms choice, every short list of
\* article numbers.
PubArgs ==
  { [platforms |-> pf, status |-> "draft", category |-> "", article_numbers |-> nums] :
      pf \in {<<"all">>, <<"ghost">>, <<"wordpress">>},
      nums \in UNION {PubNumLists(n) : n \in 0..MaxPubNums} }

\* A running server whose session is one of PubSessions, with any set of
\* publishing credentials; a client about to call publish_content with the
\* arguments race.p.
InitPublish ==
  /\ impl \in {"modular", "legacy"}
  /\ proc = "up"
  /\ now = 0
  /\ sessionState \in PubSessions
  /\ LET sv == saveSession(sessionState, None, None, 0 - 1, "ok")
     IN  /\ sessionFile = sv.file
         /\ persisted = Some(sv.snap)
  /\ tmpFile = None
  /\ calls = 0
  /\ exits = 0
  /\ faults = 0
  /\ creds \in SUBSET {"ghost", "wordpress"}
  /\ batches = {}
  /\ dispatches = <<>>
  /\ race \in [p : {<<args>> : args \in PubArgs}, q : {<<>>}]
  /\ LockInit

\* The client calls publish_content.
PublishCall ==
  /\ calls = 0
  /\ PublishContentWith(race.p[1], "ok")

\* The publisher call the batch awaits returns its post or throws.
PublishSettles ==
  \E b \in batches, success \in BOOLEAN : PublisherReturnsWith(b, success, "ok")

NextPublish ==
  \/ PublishCall
  \/ PublishSettles

SpecPublish == InitPublish /\ [][NextPublish]_vars

\* The platforms the call of race.p resolves: asked for and with credentials.
Resolved ==
  LET pf == race.p[1].platforms
  IN  {p \in creds : \E k \in 1..Len(pf) : pf[k] = "all" \/ pf[k] = p}

\* The article was unpublished when the batch of this behaviour started (the
\* batch marks at time now, every earlier run before it).
StartedUnpublished(a) == ~a.published \/ a.publishedAt = Some(now)

\* The positions among nums that hold an article for which test holds.
Wanted(articles, nums, test(_)) ==
  {n \in Range(nums) : n \in 1..Len(articles) /\ test(articles[n])}

\* C16: publish_content with article_numbers takes the batch from the
\* unpublished articles at those positions; when there is none it leaves the
\* session, its file and the batches alone and calls no publisher; every
\* publisher call is for such an article, and when the batch ends each of them
\* has been sent to every resolved platform.
C16_SelectsByNumber ==
  [][ (race.p # <<>> /\ Len(race.p[1].article_numbers) > 0) =>
        LET nums == race.p[1].article_numbers
            old  == sessionState.articles
            unpublished(a) == ~a.published
            run  == handlePublishStart(sessionState, creds, calls + 1, race.p[1],
                                       dispatches, now)
            sent == {dispatches'[k].article : k \in 1..Len(dispatches')}
            ids  == {sessionState'.articles[n].id :
                       n \in Wanted(sessionState'.articles, nums, StartedUnpublished)}
        IN  /\ PublishCall =>
                 IF Wanted(old, nums, unpublished) = {}
                   THEN UNCHANGED <<sessionState, sessionFile, persisted, batches,
                                    dispatches>>
                   ELSE Range(run.batch.arts) =
                          {old[n] : n \in Wanted(old, nums, unpublished)}
            /\ sent \subseteq ids
            /\ (calls' = 1 /\ batches' = {} /\ Resolved # {}) => sent = ids ]_vars

\* publish_content [1, 2] or [2, 1] on a session whose first article was
\* published before has sent the second one to both platforms, and nothing
\* else.
C16_SentSecondOnly ==
  /\ calls = 1
  /\ batches = {}
  /\ race.p # <<>>
  /\ Range(race.p[1].article_numbers) = {1, 2}
  /\ Len(sessionState.articles) = 2
  /\ sessionState.articles[1].published
  /\ sessionState.articles[1].publishedAt # Some(now)
  /\ Len(dispatches) = 2
  /\ \A k \in 1..2 : dispatches[k].article = sessionState.articles[2].id

\* The session has a draft publish_content can fall back to.
HasDraft(ss) == ~FalsyText(ss.article) /\ ~Falsy(ss.title)

\* C17: publish_content without article_numbers takes the batch from the
\* unpublished articles, all of them and in session order; the publisher
\* calls follow that order, each article going to every resolved platform;
\* with no unpublished article and no draft the call leaves the session, its
\* files and the batches alone and calls no publisher.
C17_SelectsUnpublished ==
  [][ (race.p # <<>> /\ Len(race.p[1].article_numbers) = 0) =>
        LET old   == sessionState.articles
            unpublished(a) == ~a.published
            run   == handlePublishStart(sessionState, creds, calls + 1, race.p[1],
                                        dispatches, now)
            due   == SelectSeq(sessionState'.articles, StartedUnpublished)
            m     == Cardinality(Resolved)
        IN  /\ PublishCall =>
                 IF \E n \in 1..Len(old) : ~old[n].published
                   THEN /\ Len(run.batch.arts) = Cardinality({n \in 1..Len(old) :
                                                               ~old[n].published})
                        /\ IsSubseq(run.batch.arts, old)
                        /\ \A k \in 1..Len(run.batch.arts) : ~run.batch.arts[k].published
                   ELSE ~HasDraft(sessionState) =>
                          UNCHANGED <<sessionState, sessionFile, tmpFile, persisted,
                                      batches, dispatches>>
            /\ Len(due) > 0 =>
                 /\ Len(dispatches') <= m * Len(due)
                 /\ \A k \in 1..Len(dispatches') :
                      dispatches'[k].article = due[((k - 1) \div m) + 1].id
                 /\ (calls' = 1 /\ batches' = {}) => Len(dispatches') = m * Len(due) ]_vars

\* publish_content without numbers on two unpublished articles has sent the
\* first to both platforms, then the second.
C17_SentInOrder ==
  /\ calls = 1
  /\ batches = {}
  /\ race.p # <<>>
  /\ race.p[1].article_numbers = <<>>
  /\ Len(sessionState.articles) = 2
  /\ Len(dispatches) = 4
  /\ dispatches[1].article = sessionState.articles[1].id
  /\ dispatches[2].article = sessionState.articles[1].id
  /\ dispatches[3].article = sessionState.articles[2].id
  /\ dispatches[4].article = sessionState.articles[2].id

\* The step belongs to a batch of the draft pseudo-article: the call that
\* starts it, or a publisher call of it settling.
DraftBatchStep ==
  \/ /\ PublishCall
     /\ LET run == handlePublishStart(sessionState, creds, calls + 1, race.p[1],
                                      dispatches, now)
        IN  ~run.noop /\ run.batch.arts[1].id = CurrentId
  \/ /\ PublishSettles
     /\ \E b \in batches : b.arts[1].id = CurrentId

\* C18: no step of a batch that fell back to the draft changes the articles
\* of the session.
C18_DraftLeavesArticles ==
  [][ DraftBatchStep => sessionState'.articles = sessionState.articles ]_vars

\* A batch of the draft has ended after two publisher calls, in a session
\* whose one article was published before.
C18_DraftBatchDone ==
  /\ calls = 1
  /\ batches = {}
  /\ Len(dispatches) = 2
  /\ \A k \in 1..2 : dispatches[k].article = CurrentId
  /\ Len(sessionState.articles) = 1
  /\ sessionState.articles[1].published

\* The publishers of the resolved platforms, in the order the loop calls them.
ResolvedSeq ==
  (IF "ghost" \in Resolved THEN <<"Ghost">> ELSE <<>>)
    \o (IF "wordpress" \in Resolved THEN <<"WordPress">> ELSE <<>>)

\* The report and the publisher calls of a batch of articles arts that has
\* ended: one result per article, in order, with one outcome per resolved
\* platform; one call per (article, platform) pair, in that order.
FullReport(arts, results, disp) ==
  LET m == Len(ResolvedSeq) IN
  /\ Len(results) = Len(arts)
  /\ \A i \in 1..Len(arts) :
       /\ results[i].articleId = arts[i].id
       /\ Len(results[i].platforms) = m
       /\ \A j \in 1..m : results[i].platforms[j].platform = ResolvedSeq[j]
  /\ Len(disp) = m * Len(arts)
  /\ \A k \in 1..Len(disp) :
       /\ disp[k].article = arts[((k - 1) \div m) + 1].id
       /\ disp[k].platform = ResolvedSeq[((k - 1) % m) + 1]

\* C19: whatever a publisher call returns, the batch goes on to the next
\* (article, platform) pair; when it ends every pair has been called once, in
\* selection order, and the report has one outcome per pair, the last one the
\* outcome of the last call.
C19_EveryPairAttempted ==
  [][ /\ PublishCall =>
           LET run == handlePublishStart(sessionState, creds, calls + 1, race.p[1],
                                         dispatches, now)
           IN  (run.done /\ ~run.noop) =>
                 FullReport(run.batch.arts, run.batch.results, dispatches')
      /\ \A b \in batches, success \in BOOLEAN :
           PublisherReturnsWith(b, success, "ok") =>
             LET run == handlePublishResume(sessionState, b, success, dispatches, now)
                 n   == Len(b.arts)
                 m   == Len(ResolvedSeq)
             IN  IF run.done
                   THEN /\ FullReport(b.arts, run.batch.results, dispatches')
                        /\ run.batch.results[n].platforms[m].success = success
                   ELSE /\ Len(dispatches') = Len(dispatches) + 1
                        /\ batches' = {run.batch}
                        /\ LET all == run.batch.platforms
                               last == IF Len(all) > 0 THEN all[Len(all)]
                                       ELSE LET r == run.batch.results
                                            IN  r[Len(r)].platforms[m]
                           IN  last = [platform |-> b.wait, success |-> success] ]_vars

\* A batch of two articles on both platforms has ended with four publisher
\* calls although Ghost failed for the first article and both platforms
\* failed for the second.
C19_AllCalledDespiteFailures ==
  /\ calls = 1
  /\ batches = {}
  /\ Len(dispatches) = 4
  /\ Len(sessionState.articles) = 2
  /\ sessionState.articles[1].publishedAt = Some(now)
  /\ sessionState.articles[1].publishedTo = <<"wordpress">>
  /\ ~sessionState.articles[2].published
  /\ dispatches[3].article = sessionState.articles[2].id
  /\ dispatches[4].article = sessionState.articles[2].id

\* The lowercased platforms the report of a batch says succeeded for the
\* article with this id.
SucceededFor(results, id) ==
  {ToLowerCase(results[i].platforms[j].platform) :
     <<i, j>> \in {<<i2, j2>> \in (1..Len(results)) \X (1..2) :
                      /\ results[i2].articleId = id
                      /\ j2 <= Len(results[i2].platforms)
                      /\ results[i2].platforms[j2].success}}

\* The flags of the saved articles of a batch that has ended with this report
\* and left these articles in the session.
FlagsFollowReport(arts, results, articles) ==
  \A i \in 1..Len(arts) :
    arts[i].id # CurrentId =>
      \A n \in 1..Len(articles) :
        articles[n].id = arts[i].id =>
          LET ok == SucceededFor(results, arts[i].id)
          IN  /\ articles[n].published <=> ok # {}
              /\ Range(articles[n].publishedTo) = ok
              /\ Len(articles[n].publishedTo) = Cardinality(ok)

\* C20: when a batch ends, every saved article it processed is published if
\* and only if a platform succeeded for it in the batch, and its publishedTo
\* holds exactly the lowercased names of the platforms that succeeded for it.
C20_FlagsFollowOutcomes ==
  [][ /\ PublishCall =>
           LET run == handlePublishStart(sessionState, creds, calls + 1, race.p[1],
                                         dispatches, now)
           IN  (run.done /\ ~run.noop) =>
                 FlagsFollowReport(run.batch.arts, run.batch.results,
                                   sessionState'.articles)
      /\ \A b \in batches, success \in BOOLEAN :
           PublisherReturnsWith(b, success, "ok") =>
             LET run == handlePublishResume(sessionState, b, success, dispatches, now)
             IN  run.done =>
                   FlagsFollowReport(b.arts, run.batch.results,
                                     sessionState'.articles) ]_vars

\* C21: no step of publish processing changes the publishedAt or the
\* publishedTo of an article that is already published.
C21_StampedOnce ==
  [][ \A n \in 1..Len(sessionState.articles) :
        (sessionState.articles[n].published /\ n <= Len(sessionState'.articles)) =>
          /\ sessionState'.articles[n].publishedAt = sessionState.articles[n].publishedAt
          /\ sessionState'.articles[n].publishedTo = sessionState.articles[n].publishedTo
    ]_vars

\* The step ends a batch that processed an article: the call itself when it
\* met no await, or the last publisher call settling.
BatchEnds ==
  \/ /\ PublishCall
     /\ LET run == handlePublishStart(sessionState, creds, calls + 1, race.p[1],
                                      dispatches, now)
        IN  run.done /\ ~run.noop
  \/ /\ PublishSettles
     /\ batches' = {}

\* C22: the session file is written by the step that ends a batch, from the
\* session as the batch leaves it, and by no other step of the batch.
C22_PersistedAtEnd ==
  [][ IF BatchEnds
        THEN /\ persisted' = Some(sessionState')
             /\ sessionFile' = Some(ToJSON(sessionState', now))
        ELSE UNCHANGED <<sessionFile, persisted>> ]_vars

\* A batch has ended that marked two articles; the session file holds both
\* marks.
C22_BothMarksPersisted ==
  /\ calls = 1
  /\ batches = {}
  /\ Len(dispatches) = 4
  /\ sessionFile # None
  /\ Len(sessionFile[1].articles) = 2
  /\ \A n \in 1..2 :
       /\ sessionFile[1].articles[n].published
       /\ sessionState.articles[n].publishedAt = Some(now)

\* ------------------------------------------- placeholders and inline images

MaxInjectLen == 6
MaxImages == 2

RECURSIVE PlaceholderTexts(_)
PlaceholderTexts(n) ==
  IF n = 0 THEN {<<>>}
  ELSE {Append(c, ch) : c \in PlaceholderTexts(n - 1), ch \in {Opener, "x", " ", Closer}}

RECURSIVE ImageLists(_)
ImageLists(n) ==
  IF n = 0 THEN {<<>>}
  ELSE {Append(l, u) : l \in ImageLists(n - 1), u \in Urls}

\* The session after generate_image for each of the urls.
RECURSIVE WithImages(_, _)
WithImages(ss, urls) ==
  IF urls = <<>> THEN ss
  ELSE WithImages(storeImageInSession(ss, None, None, 0 - 1, Head(urls), "ok").state,
                  Tail(urls))

\* The session after a cover image, the inline images urls and save_content
\* of the text content.
SessionWithImages(content, urls) ==
  handleSaveContent(WithImages(EmptySession, <<"u1">> \o urls), None, None, 0 - 1, 1,
    [title |-> "t1", content |-> content, keywords |-> <<>>, meta_description |-> ""],
    "ok").state

\* A running server with one unpublished article of any text and any inline
\* images; a client about to call publish_content for Ghost.
InitInject ==
  /\ impl \in {"modular", "legacy"}
  /\ proc = "up"
  /\ now = 0
  /\ sessionState \in
       {SessionWithImages(c, l) :
          c \in UNION {PlaceholderTexts(n) : n \in 0..MaxInjectLen},
          l \in UNION {ImageLists(n) : n \in 0..MaxImages}}
  /\ LET sv == saveSession(sessionState, None, None, 0 - 1, "ok")
     IN  /\ sessionFile = sv.file
         /\ persisted = Some(sv.snap)
  /\ tmpFile = None
  /\ calls = 0
  /\ exits = 0
  /\ faults = 0
  /\ creds = {"ghost"}
  /\ batches = {}
  /\ dispatches = <<>>
  /\ race = [p |-> <<[platforms |-> <<"ghost">>, status |-> "draft", category |-> "",
                      article_numbers |-> <<>>]>>,
             q |-> <<>>]
  /\ LockInit

NextInject ==
  \/ PublishCall
  \/ PublishSettles

SpecInject == InitInject /\ [][NextInject]_vars

\* Positions s..e of the text hold a placeholder: an opening, one character
\* or more that is no "]", and the "]".
IsPlaceholder(text, s, e) ==
  /\ text[s] = Opener
  /\ text[e] = Closer
  /\ e > s + 1
  /\ \A q \in (s + 1)..(e - 1) : text[q] # Closer

\* The placeholders of the text from position from on, in text order, none
\* inside another.
RECURSIVE PlaceholdersFrom(_, _)
PlaceholdersFrom(text, from) ==
  LET starts == {s \in from..Len(text) :
                   \E e \in s..Len(text) : IsPlaceholder(text, s, e)}
  IN  IF starts = {} THEN <<>>
      ELSE LET s == CHOOSE x \in starts : \A y \in starts : x <= y
               e == CHOOSE x \in s..Len(text) : IsPlaceholder(text, s, x)
           IN  <<[s |-> s, e |-> e]>> \o PlaceholdersFrom(text, e + 1)

\* The text in which the k-th and later placeholders of spans are replaced by
\* the k-th and later images while images last, all else as it stands.
RECURSIVE Substituted(_, _, _, _, _)
Substituted(text, spans, k, from, urls) ==
  IF k > Len(spans) THEN SubSeq(text, from, Len(text))
  ELSE SubSeq(text, from, spans[k].s - 1)
         \o (IF k <= Len(urls)
               THEN <<"![">> \o Trim(SubSeq(text, spans[k].s + 1, spans[k].e - 1))
                      \o <<"](", urls[k], ")">>
               ELSE SubSeq(text, spans[k].s, spans[k].e))
         \o Substituted(text, spans, k + 1, spans[k].e + 1, urls)

\* The image URLs of the markdown images of a text, in text order.
RECURSIVE ImagesIn(_)
ImagesIn(text) ==
  IF Len(text) < 2 THEN <<>>
  ELSE IF Head(text) = "](" THEN <<text[2]>> \o ImagesIn(Tail(Tail(text)))
  ELSE ImagesIn(Tail(text))

\* C23: the content sent to a publisher is the article's content with the
\* i-th placeholder replaced by the i-th inline image for every i up to the
\* smaller of their numbers, later placeholders and all other text as they
\* stand; the images in it are the first ones of the article, in order, once
\* each.
C23_OrderedInjection ==
  \A d \in 1..Len(dispatches) :
    LET a     == sessionState.articles[1]
        out   == dispatches[d].payload.content
        spans == PlaceholdersFrom(a.content, 1)
        used  == IF Len(spans) < Len(a.inlineImages) THEN Len(spans)
                 ELSE Len(a.inlineImages)
    IN  /\ out = Substituted(a.content, spans, 1, 1, a.inlineImages)
        /\ ImagesIn(out) = SubSeq(a.inlineImages, 1, used)

\* An article with two placeholders and one inline image has been sent with
\* the first placeholder replaced and the second as it stood.
C23_SecondPlaceholderKept ==
  /\ Len(dispatches) = 1
  /\ sessionState.articles[1].content = <<Opener, "x", Closer, Opener, "x", Closer>>
  /\ sessionState.articles[1].inlineImages = <<"u2">>
  /\ dispatches[1].payload.content = <<"![", "x", "](", "u2", ")", Opener, "x", Closer>>

\* ---------------------------------------------------------------------------
\* create_content: validateProjectConfig and buildWorkflowPlan in full.
\* ---------------------------------------------------------------------------

\* hasCredential(name), over the set of integrations credentials.json covers.
hasCredential(cr, name) == name \in cr

\* Variant: the validation stops at the first field it finds wrong.
validateProjectConfig_FirstOnly(config) ==
  LET wc == config[1].default_word_count
      wordErr == IF wc = None \/ wc[1] = 0 THEN <<"Word count: Not set">>
                 ELSE IF wc[1] < 100 THEN <<"Word count: Must be at least 100 words">>
                 ELSE IF wc[1] > 10000 THEN <<"Word count: Maximum 10,000 words supported">>
                 ELSE <<>>
      voiceErr == IF Falsy(config[1].voice) THEN <<"Brand voice: Not set">> ELSE <<>>
      nicheErr == IF Falsy(config[1].niche) THEN <<"Niche: Not set">> ELSE <<>>
      all == wordErr \o voiceErr \o nicheErr
      errors == IF all = <<>> THEN <<>> ELSE <<all[1]>>
  IN  IF config = None
        THEN [threw |-> TRUE, message |-> "Project configuration not found",
              errors |-> <<>>, warnings |-> <<>>]
        ELSE [threw |-> errors # <<>>, message |-> "Project configuration incomplete",
              errors |-> errors, warnings |-> <<>>]

\* validateProjectConfig(config).  config is None or Some(record); the word
\* count is None (not set) or Some(number), 0 being falsy like a missing one.
\* errors holds the lines of the thrown message, in the order they are pushed.
validateProjectConfig(config) ==
  LET wc == config[1].default_word_count
      wordErr == IF wc = None \/ wc[1] = 0 THEN <<"Word count: Not set">>
                 ELSE IF wc[1] < 100 THEN <<"Word count: Must be at least 100 words">>
                 ELSE IF wc[1] > 10000 THEN <<"Word count: Maximum 10,000 words supported">>
                 ELSE <<>>
      voiceErr == IF Falsy(config[1].voice) THEN <<"Brand voice: Not set">> ELSE <<>>
      nicheErr == IF Falsy(config[1].niche) THEN <<"Niche: Not set">> ELSE <<>>
      kwWarn == IF OrEmpty(config[1].primary_keywords) = <<>>
                  THEN <<"No primary keywords set">> ELSE <<>>
      audWarn == IF Falsy(config[1].target_audience)
                   THEN <<"No target audience set">> ELSE <<>>
      errors == wordErr \o voiceErr \o nicheErr
  IN  IF config = None
        THEN [threw |-> TRUE, message |-> "Project configuration not found",
              errors |-> <<>>, warnings |-> <<>>]
        ELSE [threw |-> errors # <<>>, message |-> "Project configuration incomplete",
              errors |-> errors, warnings |-> kwWarn \o audWarn]

\* Variant: the cover image is not counted.
ImageCounts_NoCover(withImages, includeImages, hasImageGen, targetWordCount) ==
  LET should == withImages /\ includeImages /\ hasImageGen
      contentImageCount == IF should THEN targetWordCount \div 300 ELSE 0
  IN  [shouldGenerateImages |-> should,
       contentImageCount |-> contentImageCount,
       totalImages |-> IF should THEN contentImageCount ELSE 0]

\* shouldGenerateImages, contentImageCount and totalImages of buildWorkflowPlan.
ImageCounts(withImages, includeImages, hasImageGen, targetWordCount) ==
  LET should == withImages /\ includeImages /\ hasImageGen
      contentImageCount == IF should THEN targetWordCount \div 300 ELSE 0
  IN  [shouldGenerateImages |-> should,
       contentImageCount |-> contentImageCount,
       totalImages |-> IF should THEN 1 + contentImageCount ELSE 0]

\* includes(): the array has the value.
Includes(arr, v) == \E k \in 1..Len(arr) : arr[k] = v

\* Variant: a given list keeps only the platforms that have a credential.
PlanTargets_Filtered(publishTo, cr) ==
  LET available == (IF hasCredential(cr, "ghost") THEN <<"ghost">> ELSE <<>>)
                   \o (IF hasCredential(cr, "wordpress") THEN <<"wordpress">> ELSE <<>>)
  IN  IF Len(publishTo) = 0 \/ Includes(publishTo, "all") THEN available
      ELSE SelectSeq(publishTo, LAMBDA x : x \in cr)

\* "Determine publish targets": publishTo || [], replaced by the platforms
\* with a credential when it is empty or has 'all'.
PlanTargets(publishTo, cr) ==
  IF Len(publishTo) = 0 \/ Includes(publishTo, "all")
    THEN (IF hasCredential(cr, "ghost") THEN <<"ghost">> ELSE <<>>)
         \o (IF hasCredential(cr, "wordpress") THEN <<"wordpress">> ELSE <<>>)
    ELSE publishTo

\* One entry of steps, before its number is known.  phase is the section of
\* the builder that pushes it; article is the number the instruction of a
\* content_write step names ("ARTICLE n OF count"), None when it names none.
PlanStep(phase, type, action, store, article, imageCount, targets) ==
  [step |-> 0, phase |-> phase, type |-> type, action |-> action, store |-> store,
   article |-> article, image_count |-> imageCount, targets |-> targets]

LlmStep(phase, action, store) ==
  PlanStep(phase, "llm_execute", action, <<store>>, None, 0, <<>>)

\* The content_write steps: the modular copy loops over the articles, the
\* legacy copy pushes one step whatever the count.
ContentWriteSteps(im, count) ==
  IF im = "legacy"
    THEN << PlanStep("Creation", "llm_execute", "content_write", <<"article">>,
                     None, 0, <<>>) >>
    ELSE AsArray([articleIndex \in 1..count |->
           PlanStep("Creation", "llm_execute", "content_write",
                    IF count > 1 THEN <<"article", articleIndex>> ELSE <<"article">>,
                    IF count > 1 THEN Some(articleIndex) ELSE None, 0, <<>>)])

\* Variant: every step keeps the number it has in the longest plan, so that
\* a step left out leaves its number unused.
Numbered_Fixed(pushed) ==
  LET Fixed(s) ==
        CASE s.action = "keyword_research" -> 1
          [] s.action = "seo_strategy" -> 2
          [] s.action = "topical_map" -> 3
          [] s.action = "content_calendar" -> 4
          [] s.action = "content_planning" -> 5
          [] OTHER -> 0
  IN  AsArray([k \in 1..Len(pushed) |->
        [pushed[k] EXCEPT !.step = IF Fixed(pushed[k]) > 0 THEN Fixed(pushed[k]) ELSE k]])

\* stepNum++ before every push: a step's number is its place in the list.
Numbered(pushed) ==
  AsArray([k \in 1..Len(pushed) |-> [pushed[k] EXCEPT !.step = k]])

\* The steps of the plan, in the order the builder pushes them.
PlanSteps(im, count, images, targets) ==
  Numbered(
    << LlmStep("Research", "keyword_research", "keywords"),
       LlmStep("Research", "seo_strategy", "seo_strategy"),
       LlmStep("Research", "topical_map", "topical_map") >>
    \o (IF count > 1 THEN << LlmStep("Research", "content_calendar", "content_calendar") >>
        ELSE <<>>)
    \o << LlmStep("Creation", "content_planning", "outline") >>
    \o ContentWriteSteps(im, count)
    \o << LlmStep("Optimization", "quality_check", "quality_report"),
          LlmStep("Optimization", "geo_optimize", "geo_report") >>
    \o (IF images.shouldGenerateImages
          THEN << PlanStep("Publishing", "llm_execute", "generate_images", <<"images">>,
                           None, images.totalImages, <<>>) >>
          ELSE <<>>)
    \o (IF Len(targets) > 0
          THEN << PlanStep("Publishing", "action", "publish", <<>>, None, 0, targets) >>
          ELSE <<>>))

\* buildWorkflowPlan(request, count, publishTo, withImages, project), with the
\* copy im and the credentials cr.  The legacy copy's settings have no
\* article_count.
buildWorkflowPlan(im, t, count, publishTo, withImages, config, cr) ==
  LET checked == validateProjectConfig(config)
      targetWordCount == config[1].default_word_count[1]
      images == ImageCounts(withImages, config[1].include_images,
                            hasCredential(cr, "image"), targetWordCount)
      targets == PlanTargets(publishTo, cr)
      steps == PlanSteps(im, count, images, targets)
  IN  IF checked.threw
        THEN [threw |-> TRUE, message |-> checked.message, errors |-> checked.errors,
              plan |-> None]
        ELSE [threw |-> FALSE, message |-> "", errors |-> <<>>,
              plan |-> Some(
                [workflow_id |-> t,
                 total_articles |-> count,
                 current_article |-> 1,
                 total_steps |-> Len(steps),
                 current_step |-> 1,
                 settings |-> [article_count |-> IF im = "legacy" THEN None ELSE Some(count),
                               target_word_count |-> targetWordCount,
                               include_images |-> config[1].include_images,
                               total_images |-> images.totalImages,
                               content_images |-> images.contentImageCount],
                 available_integrations |->
                   [ghost |-> hasCredential(cr, "ghost"),
                    wordpress |-> hasCredential(cr, "wordpress"),
                    image_generation |-> hasCredential(cr, "image")],
                 steps |-> steps])]

\* handleCreateContent / case 'create_content' with the plan in full: the
\* session is reset, the plan built, stored and saved.  A configuration the
\* validation rejects ends the handler after the reset.
handleCreateContentPlan(im, ss, file, tmp, t, args, config, cr, outcome) ==
  LET rs == resetSession(im, file)
      built == buildWorkflowPlan(im, t, args.count, args.publish_to, args.with_images,
                                 config, cr)
      s1 == [rs.state EXCEPT !.currentWorkflow = built.plan]
      sv == saveSession(s1, rs.file, tmp, t, outcome)
  IN  [outcome |-> IF built.threw THEN NoSave(rs.state, rs.file, tmp, TRUE)
                   ELSE Outcome(s1, sv, sv.threw),
       reply |-> [threw |-> built.threw, message |-> built.message,
                  errors |-> built.errors]]

MaxCount == 3

\* Word counts a project can have: not set, 0, and numbers around the limits
\* of the validation and the image arithmetic.
ConfigWordCounts == {None} \cup {Some(n) : n \in {0, 99, 100, 300, 1500, 10000, 10001}}

ProjectConfigs ==
  {Some([default_word_count |-> wc, include_images |-> inc, voice |-> v, niche |-> n,
         target_audience |-> a, primary_keywords |-> kw]) :
     wc \in ConfigWordCounts, inc \in BOOLEAN, v \in {Undefined, "friendly"},
     n \in {Undefined, "gardening"}, a \in {Undefined, "beginners"},
     kw \in {None, Some(<<"roses">>)}}

PublishToLists ==
  { <<>>, <<"all">>, <<"ghost">>, <<"wordpress">>, <<"none">>,
    <<"ghost", "wordpress">>, <<"ghost", "all">> }

CreateArgs ==
  {[count |-> c, publish_to |-> p, with_images |-> w] :
     c \in 1..MaxCount, p \in PublishToLists, w \in BOOLEAN}

\* A running server with an empty session, a project of any configuration,
\* any credentials, and a client about to call create_content.  race.p holds
\* the project's configuration and the arguments, race.q the reply.
InitPlan ==
  /\ impl \in {"modular", "legacy"}
  /\ proc = "up"
  /\ now = 0
  /\ sessionState = EmptySession
  /\ sessionFile = None
  /\ persisted = None
  /\ tmpFile = None
  /\ calls = 0
  /\ exits = 0
  /\ faults = 0
  /\ creds \in SUBSET {"ghost", "wordpress", "image"}
  /\ batches = {}
  /\ dispatches = <<>>
  /\ race \in {[p |-> <<[config |-> c, args |-> a]>>, q |-> <<>>] :
                 c \in ProjectConfigs, a \in CreateArgs}
  /\ LockInit

PlanCall ==
  /\ calls = 0
  /\ proc = "up"
  /\ LET res == handleCreateContentPlan(impl, sessionState, sessionFile, tmpFile, now,
                                        race.p[1].args, race.p[1].config, creds, "ok")
     IN  /\ Finish(res.outcome, batches, dispatches)
         /\ race' = [race EXCEPT !.q = <<res.reply>>]
  /\ calls' = calls + 1
  /\ UNCHANGED <<impl, now, creds, lockVars>>

NextPlan == PlanCall

SpecPlan == InitPlan /\ [][NextPlan]_vars

\* The call was made and built a plan.
Planned == race.q # <<>> /\ ~race.q[1].threw

ThePlan == sessionState.currentWorkflow[1]

PlanArgs == race.p[1].args

PlanConfig == race.p[1].config[1]

PhaseRank(phase) ==
  CASE phase = "Research" -> 1
    [] phase = "Creation" -> 2
    [] phase = "Optimization" -> 3
    [] phase = "Publishing" -> 4

\* C24: in every plan built from a valid configuration, the k-th step has
\* number k, the phases of the steps run Research, Creation, Optimization,
\* Publishing without going back, all four present, and total_steps is the
\* length of the list.
C24_StepsNumbered ==
  Planned =>
    LET steps == ThePlan.steps
    IN  /\ \A k \in 1..Len(steps) : steps[k].step = k
        /\ \A k \in 1..(Len(steps) - 1) :
             PhaseRank(steps[k].phase) <= PhaseRank(steps[k + 1].phase)
        /\ steps[1].phase = "Research"
        /\ \E k \in 1..Len(steps) : steps[k].phase = "Creation"
        /\ \E k \in 1..Len(steps) : steps[k].phase = "Optimization"
        /\ ThePlan.total_steps = Len(steps)

\* A plan for one article with no image step: the content calendar is left
\* out and the steps after it still count from 4.
C24_PlanWithoutCalendar ==
  /\ Planned
  /\ PlanArgs.count = 1
  /\ ThePlan.steps[4].action = "content_planning"
  /\ ThePlan.steps[Len(ThePlan.steps)].action = "publish"
  /\ ThePlan.total_steps = 8

\* The steps of the plan with the given action.
StepsOf(action) == SelectSeq(ThePlan.steps, LAMBDA s : s.action = action)

\* The three conditions of image generation, from the call, the project and
\* the credentials.
ImagesWanted ==
  PlanArgs.with_images /\ PlanConfig.include_images /\ "image" \in creds

\* C25: in every plan, images are generated (a generate_images step exists)
\* exactly when with_images, the project's include_images and the image
\* credential all hold; then content_images is the whole number q with
\* 300 q <= target_word_count < 300 (q + 1) and total_images is q + 1, and
\* otherwise both are 0.
C25_ImageCounts ==
  Planned =>
    LET st == ThePlan.settings
        wc == PlanConfig.default_word_count[1]
    IN  /\ (Len(StepsOf("generate_images")) > 0) <=> ImagesWanted
        /\ ImagesWanted =>
             /\ 300 * st.content_images <= wc
             /\ wc < 300 * (st.content_images + 1)
             /\ st.total_images = 1 + st.content_images
             /\ StepsOf("generate_images")[1].image_count = st.total_images
        /\ ~ImagesWanted => st.total_images = 0 /\ st.content_images = 0

\* A plan for 1500 words with images: 6 images, 5 of them inside the text.
C25_SixImagesFor1500 ==
  /\ Planned
  /\ ThePlan.settings.target_word_count = 1500
  /\ ThePlan.settings.total_images = 6
  /\ ThePlan.settings.content_images = 5

\* The actions of the plan's steps, in list order.
PlanActions == SeqMap(LAMBDA s : s.action, ThePlan.steps)

\* The step list a plan is to have: every step that is due, once, in order,
\* and nothing for a step that is not due.
ExpectedActions ==
  <<"keyword_research", "seo_strategy", "topical_map">>
  \o (IF PlanArgs.count > 1 THEN <<"content_calendar">> ELSE <<>>)
  \o <<"content_planning">>
  \o [i \in 1..PlanArgs.count |-> "content_write"]
  \o <<"quality_check", "geo_optimize">>
  \o (IF ImagesWanted THEN <<"generate_images">> ELSE <<>>)
  \o (IF Len(PlanTargets(PlanArgs.publish_to, creds)) > 0 THEN <<"publish">> ELSE <<>>)

\* C26: the plan has a content_calendar step exactly when the count is above
\* 1, one outline step followed by as many content_write steps as the count,
\* the i-th naming article i, a generate_images step exactly when images are
\* generated, a publish step exactly when the targets are not empty, and no
\* entry for a step that is absent.
C26_StepsPerArticle ==
  Planned =>
    /\ PlanActions = ExpectedActions
    /\ LET writes == StepsOf("content_write")
       IN  \A i \in 1..Len(writes) : writes[i].article = Some(i)
    /\ StepsOf("content_planning")[1].store = <<"outline">>

\* The targets of the plan: those of its publish step, none without one.
TargetsOfPlan ==
  IF Len(StepsOf("publish")) = 0 THEN <<>> ELSE StepsOf("publish")[1].targets

\* C27: a publish_to list that is not empty and has no 'all' is the plan's
\* target list as given, whatever its entries; an empty list or one with
\* 'all' gives ghost and wordpress, each exactly when its credential is
\* available.
C27_TargetsResolved ==
  Planned =>
    LET given == PlanArgs.publish_to
    IN  IF Len(given) > 0 /\ "all" \notin Range(given)
          THEN TargetsOfPlan = given
          ELSE TargetsOfPlan =
                 SelectSeq(<<"ghost", "wordpress">>, LAMBDA x : x \in creds)

\* A plan asked for 'none' on a server with a WordPress credential: its
\* publish step has the one target 'none'.
C27_NoneTakenVerbatim ==
  /\ Planned
  /\ PlanArgs.publish_to = <<"none">>
  /\ creds = {"wordpress"}
  /\ TargetsOfPlan = <<"none">>

\* The required fields of the configuration that are missing or invalid.
WordCountBad ==
  LET wc == PlanConfig.default_word_count
  IN  wc = None \/ wc[1] < 100 \/ wc[1] > 10000

VoiceMissing == PlanConfig.voice = Undefined

NicheMissing == PlanConfig.niche = Undefined

WordCountErrors ==
  {"Word count: Not set", "Word count: Must be at least 100 words",
   "Word count: Maximum 10,000 words supported"}

MaxRetries == 3

\* What the network does with one request: a response with a status and
\* perhaps a retry-after header, a failed connection, or nothing before the
\* timeout.
Statuses == {200, 404, 429, 500, 503}

NetworkEvents ==
  {[kind |-> "response", status |-> s, retryAfter |-> None] : s \in Statuses}
  \cup {[kind |-> "response", status |-> 429, retryAfter |-> Some("2")],
        [kind |-> "fails", status |-> 0, retryAfter |-> None],
        [kind |-> "silent", status |-> 0, retryAfter |-> None]}

\* fetchWithTimeout(url, options, timeoutMs): the response, or the error fetch
\* rejects with: an AbortError when the timer aborts the request, a TypeError
\* when the connection fails.
fetchWithTimeout(ev) ==
  CASE ev.kind = "response" ->
         [ok |-> TRUE, name |-> "", status |-> ev.status, retryAfter |-> ev.retryAfter]
    [] ev.kind = "silent" ->
         [ok |-> FALSE, name |-> "AbortError", status |-> 0, retryAfter |-> None]
    [] ev.kind = "fails" ->
         [ok |-> FALSE, name |-> "TypeError", status |-> 0, retryAfter |-> None]

\* parseInt of a retry-after header given in seconds.
ParseInt(s) == CASE s = "1" -> 1 [] s = "2" -> 2 [] s = "3" -> 3 [] OTHER -> 0

Pow2(n) == IF n = 0 THEN 1 ELSE IF n = 1 THEN 2 ELSE IF n = 2 THEN 4
           ELSE IF n = 3 THEN 8 ELSE IF n = 4 THEN 16 ELSE 32

\* The call of fetchWithRetry in progress:
\*   pc        "called", "fetching" (an attempt in flight), "waiting" (the
\*             delay before the next attempt), "returned", "threw"
\*   attempt   the loop variable
\*   started   the calls of fetchWithTimeout made
\*   log       what each finished attempt gave, in order
\*   waits     the delays slept through or begun, in ms
\*   result    the response returned or the error thrown
NoResult == [status |-> 0, error |-> ""]

FetchFrame(maxRetries) ==
  [maxRetries |-> maxRetries, pc |-> "called", attempt |-> 1, started |-> 0,
   log |-> <<>>, waits |-> <<>>, lastError |-> "", result |-> NoResult]

\* for (let attempt = 1; attempt <= maxRetries; ...): the next attempt, or the
\* throw after the loop.  The legacy copy throws lastError, undefined when no
\* attempt was made.
LoopHead(im, f) ==
  IF f.attempt <= f.maxRetries
    THEN [f EXCEPT !.pc = "fetching", !.started = @ + 1]
    ELSE [f EXCEPT !.pc = "threw",
                   !.result = [status |-> 0,
                               error |-> IF f.lastError # "" THEN f.lastError
                                         ELSE IF im = "legacy" THEN "undefined"
                                         ELSE "Request failed after attempts"]]

\* Variant: a retryable status on the last attempt is thrown, not returned.
AfterAttempt_ThrowLast(im, f, got) ==
  LET g == [f EXCEPT !.log = Append(@, got)]
      wait(h, ms) == [h EXCEPT !.pc = "waiting", !.waits = Append(@, ms)]
  IN  IF got.ok
        THEN IF got.status >= 500 \/ got.status = 429
               THEN IF f.attempt < f.maxRetries
                      THEN wait(g, Pow2(f.attempt) * 1000)
                      ELSE [g EXCEPT !.pc = "threw",
                                     !.result = [status |-> 0, error |-> "Request failed"]]
               ELSE [g EXCEPT !.pc = "returned",
                              !.result = [status |-> got.status, error |-> ""]]
        ELSE LET e == IF got.name = "AbortError" THEN "Request timeout" ELSE got.name
                 h == [g EXCEPT !.lastError = e]
             IN  IF f.attempt < f.maxRetries
                   THEN wait(h, Pow2(f.attempt) * 1000)
                   ELSE LoopHead(im, [h EXCEPT !.attempt = @ + 1])

\* The loop body from the return of fetchWithTimeout to the next await, the
\* return or the throw.
AfterAttempt(im, f, got) ==
  LET g == [f EXCEPT !.log = Append(@, got)]
      wait(h, ms) == [h EXCEPT !.pc = "waiting", !.waits = Append(@, ms)]
  IN  IF got.ok
        THEN IF (got.status >= 500 \/ got.status = 429) /\ f.attempt < f.maxRetries
               THEN wait(g, IF got.retryAfter # None
                              THEN ParseInt(got.retryAfter[1]) * 1000
                              ELSE Pow2(f.attempt) * 1000)
               ELSE [g EXCEPT !.pc = "returned",
                              !.result = [status |-> got.status, error |-> ""]]
        ELSE IF got.name = "AbortError" /\ im = "modular"
          THEN [g EXCEPT !.pc = "threw", !.lastError = got.name,
                         !.result = [status |-> 0, error |-> "Request timeout"]]
        ELSE LET e == IF got.name = "AbortError" THEN "Request timeout" ELSE got.name
                 h == [g EXCEPT !.lastError = e]
             IN  IF f.attempt < f.maxRetries
                   THEN wait(h, Pow2(f.attempt) * 1000)
                   ELSE LoopHead(im, [h EXCEPT !.attempt = @ + 1])

\* A caller about to call fetchWithRetry with some maxRetries.
InitFetch ==
  /\ impl \in {"modular", "legacy"}
  /\ proc = "up"
  /\ now = 0
  /\ sessionState = EmptySession
  /\ sessionFile = None
  /\ persisted = None
  /\ tmpFile = None
  /\ calls = 0
  /\ exits = 0
  /\ faults = 0
  /\ creds = {}
  /\ batches = {}
  /\ dispatches = <<>>
  /\ race \in {[p |-> <<FetchFrame(m)>>, q |-> <<>>] : m \in 0..MaxRetries}
  /\ LockInit

FetchUnchanged ==
  UNCHANGED <<impl, proc, now, sessionState, sessionFile, tmpFile, persisted, calls,
              exits, faults, creds, batches, dispatches, lockVars>>

Fetch == race.p[1]

\* fetchWithRetry is entered.
FetchCall ==
  /\ Fetch.pc = "called"
  /\ race' = [race EXCEPT !.p = <<LoopHead(impl, Fetch)>>]
  /\ FetchUnchanged

\* The attempt in flight ends: a response, a failed connection or the abort.
AttemptEnds ==
  /\ Fetch.pc = "fetching"
  /\ \E ev \in NetworkEvents :
       race' = [race EXCEPT !.p = <<AfterAttempt(impl, Fetch, fetchWithTimeout(ev))>>]
  /\ FetchUnchanged

\* The delay is over: continue, or the end of the loop body, and attempt++.
DelayEnds ==
  /\ Fetch.pc = "waiting"
  /\ race' = [race EXCEPT !.p = <<LoopHead(impl, [Fetch EXCEPT !.attempt = @ + 1])>>]
  /\ FetchUnchanged

NextFetch ==
  \/ FetchCall
  \/ AttemptEnds
  \/ DelayEnds

SpecFetch == InitFetch /\ [][NextFetch]_vars

\* The attempt may be followed by another under C29: a 5xx or 429 response,
\* or an error that is no timeout.
Retryable(got) ==
  IF got.ok THEN got.status >= 500 \/ got.status = 429
  ELSE got.name # "AbortError"

\* C29: attempt k is followed by attempt k + 1 (started, or due after the
\* delay in progress) exactly when k < maxRetries and attempt k gave a
\* status >= 500, a 429 or an error that is no timeout; a response of any
\* other status is what fetchWithRetry returns, with no further attempt; and
\* a 500 followed by a 200 returns the 200.
C29_RetriesWhenRetryable ==
  /\ \A k \in 1..Len(Fetch.log) :
       LET followed == Fetch.started > k \/ (k = Len(Fetch.log) /\ Fetch.pc = "waiting")
       IN  followed <=> (k < Fetch.maxRetries /\ Retryable(Fetch.log[k]))
  /\ \A k \in 1..Len(Fetch.log) :
       (Fetch.log[k].ok /\ ~Retryable(Fetch.log[k])) =>
         /\ k = Len(Fetch.log)
         /\ Fetch.pc = "returned"
         /\ Fetch.result.status = Fetch.log[k].status
  /\ (Len(Fetch.log) = 2 /\ Fetch.log[1].ok /\ Fetch.log[1].status = 500
        /\ Fetch.log[2].ok /\ Fetch.log[2].status = 200) =>
       Fetch.pc = "returned" /\ Fetch.result.status = 200

\* C30: an attempt that ends in a timeout is the last one: fetchWithRetry has
\* thrown the timeout error, no delay was begun after it and no later attempt
\* was started, whatever maxRetries is.
C30_TimeoutNotRetried ==
  \A k \in 1..Len(Fetch.log) :
    Fetch.log[k].name = "AbortError" =>
      /\ Fetch.pc = "threw"
      /\ Fetch.result.error = "Request timeout"
      /\ Fetch.started = k
      /\ Len(Fetch.log) = k
      /\ Len(Fetch.waits) = k - 1

\* Timers fire and requests end (with a response, an error or the abort of
\* fetchWithTimeout), so a call that can take a step takes it.
SpecFetchLive == InitFetch /\ [][NextFetch]_vars /\ WF_vars(NextFetch)

FetchDone == Fetch.pc \in {"returned", "threw"}

\* What the call does with its attempts: never more than maxRetries are
\* started; a 5xx or 429 response to attempt maxRetries is returned; a failed
\* connection at attempt maxRetries is thrown as it is.
AttemptsBounded ==
  /\ Fetch.started <= Fetch.maxRetries
  /\ Len(Fetch.log) <= Fetch.started
  /\ (Len(Fetch.log) = Fetch.maxRetries /\ Fetch.maxRetries > 0) =>
       LET last == Fetch.log[Fetch.maxRetries]
       IN  /\ FetchDone
           /\ (last.ok /\ (last.status >= 500 \/ last.status = 429)) =>
                (Fetch.pc = "returned" /\ Fetch.result.status = last.status)
           /\ last.name = "TypeError" =>
                (Fetch.pc = "threw" /\ Fetch.result.error = "TypeError")

\* C31: fetchWithRetry starts at most maxRetries attempts and every call
\* ends; a retryable status at the last allowed attempt is returned to the
\* caller and a network error at the last allowed attempt is thrown.
C31_BoundedAndTerminates == []AttemptsBounded /\ <>FetchDone

\* Two attempts allowed, a 500 and then a 503: the 503 is returned.
C31_LastStatusReturned ==
  /\ Fetch.maxRetries = 2
  /\ Len(Fetch.log) = 2
  /\ Fetch.log[1].status = 500
  /\ Fetch.log[2].status = 503
  /\ Fetch.pc = "returned"
  /\ Fetch.result.status = 503

\* ---------------------------------------------------------------------------
\* clear_session on its own.
\* ---------------------------------------------------------------------------

\* The confirm argument: missing, false or true.
ConfirmArgs == {None, Some(FALSE), Some(TRUE)}

\* !confirm is false.
Truthy(o) == o # None /\ o[1]

\* Sessions with saved articles and, as drawn, a workflow from create_content
\* and a cover and an inline image from generate_image.
ClearSessions ==
  {WithImages([s EXCEPT !.currentWorkflow = IF w THEN Some(WorkflowPlan(0, 1)) ELSE None],
              urls) :
     s \in Sessions, w \in BOOLEAN, urls \in {<<>>, <<"u1">>, <<"u1", "u2">>}}

\* A running server with such a session, saved, and a client about to call
\* clear_session with the confirm of race.p.
InitClear ==
  /\ impl \in {"modular", "legacy"}
  /\ proc = "up"
  /\ now = 0
  /\ sessionState \in ClearSessions
  /\ LET sv == saveSession(sessionState, None, None, 0 - 1, "ok")
     IN  /\ sessionFile = sv.file
         /\ persisted = Some(sv.snap)
  /\ tmpFile = None
  /\ calls = 0
  /\ exits = 0
  /\ faults = 0
  /\ creds = {"ghost", "wordpress"}
  /\ batches = {}
  /\ dispatches = <<>>
  /\ race \in {[p |-> <<[confirm |-> c]>>, q |-> <<>>] : c \in ConfirmArgs}
  /\ LockInit

ClearCall ==
  /\ calls = 0
  /\ ClearSessionWith(Truthy(race.p[1].confirm))

NextClear == ClearCall

SpecClear == InitClear /\ [][NextClear]_vars

\* C32: clear_session without a true confirm does not throw and leaves the
\* session, with its articles, draft, images and workflow, and the session
\* file as they were.
C32_UnconfirmedClearKeepsAll ==
  [][(ClearCall /\ ~Truthy(race.p[1].confirm)) =>
       /\ UNCHANGED <<sessionState, sessionFile, tmpFile, persisted>>
       /\ ~handleClearSession(impl, sessionState, sessionFile, tmpFile, FALSE).threw
       /\ ~handleClearSession(impl, sessionState, sessionFile, tmpFile, FALSE).crashed]_vars

\* clear_session was called with confirm: false on a session with articles,
\* images and a workflow, and all of it is still there, in memory and on disk.
C32_KeptAfterUnconfirmedClear ==
  /\ calls = 1
  /\ race.p[1].confirm = Some(FALSE)
  /\ Len(sessionState.articles) = MaxArticles
  /\ sessionState.imageUrl = "u1"
  /\ sessionState.inlineImages = <<"u2">>
  /\ sessionState.currentWorkflow # None
  /\ persisted = Some(sessionState)

\* ---------------------------------------------------------------------------
\* load_content: from folder_name to the folder that is read.
\* ---------------------------------------------------------------------------

MaxPathLen == 5

\* Characters of a folder_name: a letter, a dot, a separator, a null byte.
Nul == "<nul>"

PathChars == {"a", ".", "/", Nul}

RECURSIVE FolderNames(_)
FolderNames(n) ==
  IF n = 0 THEN {<<>>}
  ELSE {Append(s, c) : s \in FolderNames(n - 1), c \in PathChars}

\* userPath.replace(/\0/g, '')
StripNul(s) == SelectSeq(s, LAMBDA c : c # Nul)

\* The segments between the separators of a path, empty ones included.
RECURSIVE Segments(_)
Segments(s) ==
  IF \A k \in 1..Len(s) : s[k] # "/" THEN <<s>>
  ELSE LET k == CHOOSE j \in 1..Len(s) : s[j] = "/" /\ \A q \in 1..(j - 1) : s[q] # "/"
       IN  <<SubSeq(s, 1, k - 1)>> \o Segments(SubSeq(s, k + 1, Len(s)))

\* path.normalize from a directory on: empty and "." segments are dropped,
\* ".." leaves the directory last entered, and stays at the root.
RECURSIVE Normalize(_, _)
Normalize(dir, segs) ==
  IF segs = <<>> THEN dir
  ELSE LET seg == Head(segs)
           next == IF seg = <<>> \/ seg = <<".">> THEN dir
                   ELSE IF seg = <<".", ".">>
                     THEN (IF dir = <<>> THEN dir ELSE SubSeq(dir, 1, Len(dir) - 1))
                   ELSE Append(dir, seg)
       IN  Normalize(next, Tail(segs))

\* path.resolve(base, p): an absolute p replaces the base.
pathResolve(base, p) ==
  IF p # <<>> /\ p[1] = "/" THEN Normalize(<<>>, Segments(p))
  ELSE Normalize(base, Segments(p))

\* path.join(base, p): p is appended, absolute or not.
pathJoin(base, p) == Normalize(base, Segments(p))

\* normalizedResolved.startsWith(normalizedBase), both ending in a separator.
StartsWith(dir, base) ==
  Len(base) <= Len(dir) /\ SubSeq(dir, 1, Len(base)) = base

\* sanitizePath(userPath, allowedBase)
sanitizePath(userPath, allowedBase) ==
  LET cleanPath == StripNul(userPath)
      resolved == pathResolve(allowedBase, cleanPath)
  IN  [threw |-> ~StartsWith(resolved, allowedBase), resolved |-> resolved]

\* getContentDir(): the content directory, /a here, so that the names drawn
\* reach directories inside it, beside it and above it.
ContentDir == << <<"a">> >>

\* The directories of the file system that hold an article.md, and what the
\* file says: the directories /x and /x/y with x, y in {a, aa}, but for the
\* content directory itself.
DirNames == { <<"a">>, <<"a", "a">> }

ArticleDirs ==
  ({<<x>> : x \in DirNames} \cup {<<x, y>> : x \in DirNames, y \in DirNames})
  \ {ContentDir}

FolderAt(name, dir) ==
  [name |-> name, exists |-> TRUE,
   content |-> IF StartsWith(dir, ContentDir) THEN <<"w">> ELSE <<"w", " ", "w">>,
   metadata |-> [NoMetadata EXCEPT
                   !.title = IF StartsWith(dir, ContentDir) THEN "t1" ELSE "t2"]]

\* The head of handleLoadContent / case 'load_content': the reply without a
\* folder_name, the path the folder is looked for at, and whether it is
\* found.  The modular copy goes through getContentFolderSafe; the legacy
\* copy joins the name to the content directory, and existsSync is false for
\* a path with a null byte.
LocateFolder(im, folder_name) ==
  LET safe == sanitizePath(folder_name, ContentDir)
      joined == pathJoin(ContentDir, folder_name)
      dir == IF im = "modular" THEN safe.resolved ELSE joined
      found == dir \in ArticleDirs
               /\ (im = "legacy" => \A k \in 1..Len(folder_name) : folder_name[k] # Nul)
  IN  IF folder_name = <<>> THEN [reply |-> "Please specify a folder_name", read |-> None]
      ELSE IF im = "modular" /\ safe.threw
        THEN [reply |-> "Invalid folder name", read |-> None]
      ELSE IF ~found THEN [reply |-> "Folder not found", read |-> None]
      ELSE [reply |-> "Content Loaded", read |-> Some(dir)]

\* A running server with an empty session or one saved article, and a client
\* about to call load_content with the folder_name of race.p.
InitPath ==
  /\ impl \in {"modular", "legacy"}
  /\ proc = "up"
  /\ now = 0
  /\ sessionState \in {EmptySession, SessionOf(<<FALSE>>)}
  /\ LET sv == saveSession(sessionState, None, None, 0 - 1, "ok")
     IN  /\ sessionFile = sv.file
         /\ persisted = Some(sv.snap)
  /\ tmpFile = None
  /\ calls = 0
  /\ exits = 0
  /\ faults = 0
  /\ creds = {}
  /\ batches = {}
  /\ dispatches = <<>>
  /\ race \in {[p |-> <<[folder_name |-> f]>>, q |-> <<>>] :
                 f \in UNION {FolderNames(n) : n \in 0..MaxPathLen}}
  /\ LockInit

\* load_content: race.q gets the reply and the directory read.
LoadPathCall ==
  /\ calls = 0
  /\ proc = "up"
  /\ LET name == race.p[1].folder_name
         loc == LocateFolder(impl, name)
     IN  /\ race' = [race EXCEPT !.q = <<loc>>]
         /\ IF loc.read = None
              THEN Finish(NoSave(sessionState, sessionFile, tmpFile, FALSE),
                          batches, dispatches)
              ELSE Finish(handleLoadContent(sessionState, sessionFile, tmpFile, now, 1,
                                            FolderAt(name, loc.read[1]), "ok"),
                          BatchesUnshared, dispatches)
  /\ calls' = calls + 1
  /\ UNCHANGED <<impl, now, creds, lockVars>>

NextPath == LoadPathCall

SpecPath == InitPath /\ [][NextPath]_vars

\* Where the folder_name points: null bytes stripped, then resolved against
\* the content directory.
Pointed(folder_name) == pathResolve(ContentDir, StripNul(folder_name))

\* C33: load_content reads only from a directory inside the content
\* directory, the one the name points at once its null bytes are stripped; a
\* name that points outside is answered with an error and the session stays
\* as it was.
C33_ReadsInsideContentDir ==
  [][LoadPathCall =>
       LET name == race.p[1].folder_name
           got == race'.q[1]
       IN  /\ got.read # None =>
                /\ StartsWith(got.read[1], ContentDir)
                /\ got.read[1] = Pointed(name)
           /\ (name # <<>> /\ ~StartsWith(Pointed(name), ContentDir)) =>
                /\ got.reply = "Invalid folder name"
                /\ UNCHANGED <<sessionState, sessionFile, persisted>>]_vars

\* What an article says apart from its publication: the fields save_content
\* and load_content give it.
ArticleBody(a) ==
  [id |-> a.id, title |-> a.title, content |-> a.content, keywords |-> a.keywords,
   metaDescription |-> a.metaDescription, imageUrl |-> a.imageUrl,
   inlineImages |-> a.inlineImages]

Bodies(articles) == AsArray([k \in 1..Len(articles) |-> ArticleBody(articles[k])])

\* C34: a step of save_content, load_content, generate_image, remove_article
\* or publish_content leaves the title, content, keywords, meta description,
\* cover image and inline-image list of every article it keeps as they were:
\* the articles after the step are those before it, some removed, new ones
\* added at the end.
C34_ArticlesImmutable ==
  [][ ContentToolStep =>
        \E n \in 0..Len(sessionState'.articles) :
          IsSubseq(SubSeq(Bodies(sessionState'.articles), 1, n),
                   Bodies(sessionState.articles))
          /\ (n < Len(sessionState'.articles) =>
                /\ n = Len(sessionState.articles)
                /\ Len(sessionState'.articles) = n + 1) ]_vars

\* ---------------------------------------------------------------------------
\* The session lock: progress.
\* ---------------------------------------------------------------------------

\* A caller whose acquire promise is resolved runs on: the rest of
\* saveSessionSafe, which ends in finally { releaseSessionLock() }.
SpecLockLive ==
  InitLock /\ [][NextLock]_vars /\ \A c \in Callers : WF_vars(SafeResume(c))

HoldsLock(c) == callerPc[c] \in {"acquired", "woken"}

\* No caller is inside saveSessionSafe: the lock is free and nobody queued.
FreeWhenAllReleased ==
  (\A c \in Callers : callerPc[c] \in {"idle", "threw"}) =>
    (~sessionLock /\ sessionLockQueue = <<>>)

\* C35: with every holder going on to its release, a caller queued in
\* acquireSessionLock comes to hold the lock, unless the process dies first;
\* and when every caller has released, the lock is free and the queue empty.
C35_WaitersGetTheLock ==
  /\ \A c \in Callers : (callerPc[c] = "waiting") ~> (HoldsLock(c) \/ proc = "down")
  /\ []FreeWhenAllReleased

\* The last of three callers holds the lock after waiting behind two others.
C35_ThirdCallerServed ==
  /\ Len(grantOrder) = NumCallers
  /\ Len(acquireOrder) = NumCallers
  /\ callerPc[grantOrder[NumCallers]] = "woken"
  /\ sessionLockQueue = <<>>
  /\ sessionLock

\* ---------------------------------------------------------------------------
\* save_content, a restart, save_content.
\* ---------------------------------------------------------------------------

\* A running server whose draft has the images of some generate_image calls,
\* the last of which saved the session.
InitCarry ==
  /\ impl \in {"modular", "legacy"}
  /\ proc = "up"
  /\ now = 0
  /\ sessionState \in {WithImages(EmptySession, l) :
                         l \in UNION {ImageLists(n) : n \in 0..MaxImages}}
  /\ LET sv == saveSession(sessionState, None, None, 0, "ok")
     IN  /\ sessionFile = sv.file
         /\ persisted = Some(sv.snap)
  /\ tmpFile = None
  /\ calls = 0
  /\ exits = 0
  /\ faults = 0
  /\ creds = {}
  /\ batches = {}
  /\ dispatches = <<>>
  /\ race = NoRace
  /\ LockInit

\* save_content, completed, before any restart.
FirstSave ==
  /\ calls = 0
  /\ exits = 0
  /\ \E args \in SaveArgs, r \in Rands : SaveContentWith(args, r, "ok")

\* save_content after the restart, with no generate_image in between.
SecondSave ==
  /\ calls = 1
  /\ exits = 1
  /\ \E args \in SaveArgs, r \in Rands : SaveContentWith(args, r, "ok")

\* The process ends after the first save_content.
ExitAfterSave == calls = 1 /\ Exit

NextCarry ==
  \/ FirstSave
  \/ ExitAfterSave
  \/ Start
  \/ SecondSave

SpecCarry == InitCarry /\ [][NextCarry]_vars

\* C36: after save_content and a restart the draft has no cover image and no
\* inline images, and the article saved next has none either.
C36_NoImagesAfterRestart ==
  (proc = "up" /\ exits = 1) =>
    /\ calls = 1 => (sessionState.imageUrl = Null /\ sessionState.inlineImages = <<>>)
    /\ calls = 2 =>
         LET a == sessionState.articles[Len(sessionState.articles)]
         IN  a.imageUrl = Null /\ a.inlineImages = <<>>

\* C37: a create_content call that fails on the project's configuration
\* leaves the session (articles, draft, workflow) and the session file as
\* they were.
C37_FailedCreateKeepsSession ==
  [][ \A count \in Counts, o \in Outcomes :
        CreateContentWith(count, FALSE, o) =>
          UNCHANGED <<sessionState, sessionFile, persisted>> ]_vars

\* Every saved article of the session is published and no batch is running.
AllPublished ==
  /\ Len(sessionState.articles) > 0
  /\ \A n \in 1..Len(sessionState.articles) : sessionState.articles[n].published
  /\ batches = {}

\* C38: once every saved article is published, a further publish_content
\* without article_numbers calls no publisher: nothing is sent to a platform.
C38_RepublishSendsNothing ==
  [][ \A args \in PublishArgs, o \in Outcomes :
        (AllPublished /\ args.article_numbers = <<>> /\ PublishContentWith(args, o)) =>
          dispatches' = dispatches ]_vars

\* C39: within one publish_content batch no article is sent to the same
\* platform twice, whatever article_numbers repeats.
C39_OncePerPlatform ==
  \A k, j \in 1..Len(dispatches) :
    (k < j /\ dispatches[k].batch = dispatches[j].batch
           /\ dispatches[k].platform = dispatches[j].platform) =>
      dispatches[k].article # dispatches[j].article

\* The excerpt of the post body publishWithPlugin sends:
\* excerpt: sessionState.metaDescription || ''.
Excerpt(ss) == OrElse(ss.metaDescription, "")

\* The step sent the article at the head of batch b to WordPress.
SentToWordPress(b) ==
  /\ b.wait = "WordPress"
  /\ Len(dispatches') = Len(dispatches) + 1
  /\ dispatches'[Len(dispatches')].batch = b.id
  /\ dispatches'[Len(dispatches')].platform = "WordPress"

\* C40: what a platform receives for an article of a batch comes from that
\* article and from the call's status and category alone, whatever the draft
\* fields and the other articles hold: the title, tags and featured image are
\* the article's, and the excerpt sent to WordPress is the article's own meta
\* description.
C40_OwnMetaDescription ==
  [][ \A b \in batches' :
        SentToWordPress(b) =>
          LET article == b.arts[b.i]
              sent    == dispatches'[Len(dispatches')].payload
          IN  /\ sent.title = article.title
              /\ sent.tags = article.keywords
              /\ sent.featured_image_url = article.imageUrl
              /\ sent.status = b.status
              /\ Excerpt(sessionState') = article.metaDescription ]_vars

====
